---- MODULE Spec2Model ----
(***************************************************************************)
(* A model of the cohort computation layer of ir-team-exercise: term       *)
(* arithmetic (helper.py), column validation (checks.py), identifier       *)
(* normalisation (clean.py), the cohort metrics (headcount_calcs.py) and   *)
(* the way run.py drives them.                                             *)
(*                                                                         *)
(* Text is modelled as a sequence of one-character strings, so that        *)
(* slicing, int(), str() and lstrip() act on characters as they do in      *)
(* Python.  A literal that the code only ever compares or concatenates as  *)
(* a whole (a cohort type, a column value such as 'FT') is one symbol of   *)
(* the sequence.  A missing cell (pandas NaN) is the value NaN.            *)
(***************************************************************************)
EXTENDS Integers, Sequences, FiniteSets, TLC

VARIABLES
    df_pell,        \* the caller's Pell table
    df_ret,         \* the caller's retention / graduation table
    df_enrl,        \* the caller's census enrollment table
    id_column,      \* the configured identifier column name
    term,           \* the configured term code
    heap,           \* Python set objects the caller holds, by reference
    required_cols,  \* the caller's reference to its required_cols argument
    files,          \* the output files written so far
    pc,             \* where the caller is
    op,             \* the name of the last function called
    args,           \* the arguments of that call
    ret             \* its outcome: what it returned, or what it raised

vars == <<df_pell, df_ret, df_enrl, id_column, term, heap, required_cols, files, pc, op, args, ret>>

tables == <<df_pell, df_ret, df_enrl>>

(***************************************************************************)
(* Outcomes of a call.                                                     *)
(***************************************************************************)
Return(v) == [kind |-> "return", val |-> v]

Raise(e, d) == [kind |-> "raise", exc |-> e, detail |-> d]

Returned(r) == r.kind = "return"

Raised(r, e) == r.kind = "raise" /\ r.exc = e

None == <<"None">>

NaN == <<"NaN">>

NoCall == [kind |-> "none"]

NoArgs == [none |-> TRUE]

EmptyTable == [cols |-> {}, rows |-> <<>>]

Min(a, b) == IF a < b THEN a ELSE b

Max(a, b) == IF a > b THEN a ELSE b

(***************************************************************************)
(* Python text primitives used by helper.py.                               *)
(***************************************************************************)
Digit == <<"0", "1", "2", "3", "4", "5", "6", "7", "8", "9">>

IsDigit(c) == \E i \in 1..Len(Digit) : Digit[i] = c

DigitVal(c) == (CHOOSE i \in 1..Len(Digit) : Digit[i] = c) - 1

\* s[:n]
Prefix(s, n) == SubSeq(s, 1, Min(n, Len(s)))

\* s[-n:]
Suffix(s, n) == SubSeq(s, Max(1, Len(s) - n + 1), Len(s))

\* s[a:b] for 0 <= a <= b
Slice(s, a, b) == SubSeq(s, a + 1, Min(b, Len(s)))

RECURSIVE NatOf(_)
NatOf(s) == IF s = <<>> THEN 0
            ELSE 10 * NatOf(SubSeq(s, 1, Len(s) - 1)) + DigitVal(s[Len(s)])

\* int(s) accepts an optional sign followed by at least one digit
CanInt(s) ==
    LET body == IF s # <<>> /\ s[1] = "-" THEN Tail(s) ELSE s
    IN  body # <<>> /\ \A i \in 1..Len(body) : IsDigit(body[i])

PyInt(s) == IF s[1] = "-" THEN 0 - NatOf(Tail(s)) ELSE NatOf(s)

RECURSIVE StrNat(_)
StrNat(n) == IF n < 10 THEN <<Digit[n + 1]>>
             ELSE StrNat(n \div 10) \o <<Digit[(n % 10) + 1]>>

\* str(n)
PyStr(n) == IF n < 0 THEN <<"-">> \o StrNat(0 - n) ELSE StrNat(n)

(***************************************************************************)
(* Term arithmetic (helper.py).                                            *)
(***************************************************************************)
\* a mutation of adjust_term: the period code is dropped
adjust_term_no_period(t, years) ==
    IF ~CanInt(Prefix(t, 4)) THEN Raise("ValueError", Prefix(t, 4))
    ELSE Return(PyStr(PyInt(Prefix(t, 4)) + years))

adjust_term(t, years) ==
    IF ~CanInt(Prefix(t, 4)) THEN Raise("ValueError", Prefix(t, 4))
    ELSE Return(PyStr(PyInt(Prefix(t, 4)) + years) \o Suffix(t, 2))

calc_academic_year_from_term(t, two_digit) ==
    IF two_digit
    THEN IF ~CanInt(Slice(t, 2, 4)) THEN Raise("ValueError", Slice(t, 2, 4))
         ELSE Return(Slice(t, 2, 4) \o PyStr(PyInt(Slice(t, 2, 4)) + 1))
    ELSE IF ~CanInt(Prefix(t, 4)) THEN Raise("ValueError", Prefix(t, 4))
         ELSE Return(Prefix(t, 4) \o <<"-">> \o PyStr(PyInt(Prefix(t, 4)) + 1))

FED == "Fall, First-Time, Full-Time"

construct_cohort(t, cohort_type) == Prefix(t, 4) \o <<" ">> \o <<cohort_type>>

(***************************************************************************)
(* Bounds and input domains of the term-arithmetic specification.          *)
(***************************************************************************)
MaxShift == 2

Shifts == (0 - MaxShift)..MaxShift

Years == {0, 5, 999, 1000, 1001, 1998, 2008, 2025, 2099, 9998, 9999}

Periods == {<<"8", "0">>, <<"1", "0">>}

\* the four-character year of a term code
Year4(y) == [i \in 1..(4 - Len(StrNat(y))) |-> "0"] \o StrNat(y)

TermCodes == {Year4(y) \o p : y \in Years, p \in Periods}

IsTermCode(t) == Len(t) = 6 /\ \A i \in 1..6 : IsDigit(t[i])

YearOf(t) == NatOf(SubSeq(t, 1, 4))

InitIdle ==
    /\ df_pell = EmptyTable
    /\ df_ret = EmptyTable
    /\ df_enrl = EmptyTable
    /\ id_column = "ID"
    /\ heap = <<>>
    /\ required_cols = 0
    /\ files = <<>>

InitTerm ==
    /\ InitIdle
    /\ term \in TermCodes
    /\ pc = "start"
    /\ op = "none"
    /\ args = NoArgs
    /\ ret = NoCall

\* adjust_term(term, n)
AdjustTerm ==
    /\ pc = "start"
    /\ \E n \in Shifts :
        /\ args' = [term |-> term, years |-> n]
        /\ ret' = adjust_term(term, n)
    /\ op' = "adjust_term"
    /\ pc' = "adjusted"
    /\ UNCHANGED <<tables, id_column, term, heap, required_cols, files>>

\* adjust_term(adjust_term(term, n), -n)
AdjustBack ==
    /\ pc = "adjusted"
    /\ Returned(ret)
    /\ args' = [term |-> ret.val, years |-> 0 - args.years]
    /\ ret' = adjust_term(ret.val, 0 - args.years)
    /\ op' = "adjust_term"
    /\ pc' = "back"
    /\ UNCHANGED <<tables, id_column, term, heap, required_cols, files>>

\* calc_academic_year_from_term(term, two_digit)
CalcAcademicYear ==
    /\ pc = "start"
    /\ \E b \in BOOLEAN :
        /\ args' = [term |-> term, two_digit |-> b]
        /\ ret' = calc_academic_year_from_term(term, b)
    /\ op' = "calc_academic_year_from_term"
    /\ pc' = "called"
    /\ UNCHANGED <<tables, id_column, term, heap, required_cols, files>>

\* construct_cohort(term)
ConstructCohort ==
    /\ pc = "start"
    /\ args' = [term |-> term, cohort_type |-> FED]
    /\ ret' = Return(construct_cohort(term, FED))
    /\ op' = "construct_cohort"
    /\ pc' = "called"
    /\ UNCHANGED <<tables, id_column, term, heap, required_cols, files>>

NextTerm == AdjustTerm \/ AdjustBack \/ CalcAcademicYear \/ ConstructCohort

SpecTerm == InitTerm /\ [][NextTerm]_vars

FourDigitYears(t, n) ==
    /\ YearOf(t) \in 1000..9999
    /\ YearOf(t) + n \in 1000..9999

PdEq(v, s) == v # NaN /\ v = s

\* Series != scalar: a missing cell differs from everything
PdNe(v, s) == v = NaN \/ v # s

\* df[column] == value: a boolean mask over the rows
ColEq(df, column, value) == [i \in 1..Len(df.rows) |-> PdEq(df.rows[i][column], value)]

\* df[column] != value
ColNe(df, column, value) == [i \in 1..Len(df.rows) |-> PdNe(df.rows[i][column], value)]

\* mask1 & mask2
MaskAnd(m1, m2) == [i \in 1..Len(m1) |-> m1[i] /\ m2[i]]

\* the mask that keeps every row
AllRows(df) == [i \in 1..Len(df.rows) |-> TRUE]

\* sum(mask): the number of rows the mask keeps
CountRows(mask) == Cardinality({i \in 1..Len(mask) : mask[i]})

\* df[mask]: the rows the mask keeps, in order
RECURSIVE KeepRows(_, _)
KeepRows(rows, mask) ==
    IF rows = <<>> THEN <<>>
    ELSE (IF Head(mask) THEN <<Head(rows)>> ELSE <<>>) \o KeepRows(Tail(rows), Tail(mask))

\* set(df.loc[mask, column].dropna())
IdSet(df, column, mask) == {df.rows[i][column] : i \in {j \in 1..Len(mask) : mask[j]}} \ {NaN}

\* round(num / den, places), as a count of units of 10^-places (den > 0, num >= 0);
\* a tie is rounded to the even unit (it needs a denominator that is a multiple of 16)
PyRound(num, den, places) ==
    LET scale == IF places = 3 THEN 1000 ELSE IF places = 2 THEN 100
                 ELSE IF places = 1 THEN 10 ELSE 1
        q == (num * scale) \div den
        r2 == 2 * ((num * scale) % den)
    IN  IF r2 > den \/ (r2 = den /\ q % 2 = 1) THEN q + 1 ELSE q

(***************************************************************************)
(* checks.py                                                               *)
(***************************************************************************)
required_cohort_columns == {"Cohort Name"}

required_enrollment_columns == {"Academic Period", "Time Status", "Student Level", "Degree"}

required_pell_columns == {"AID_YEAR"}

\* a mutation of set_copy: no copy is made, the local name is bound to the caller's set
set_alias(h, ref) == [heap |-> h, ref |-> ref]

\* set(required_cols): a new set object with the elements of the one referred to
set_copy(h, ref) == [heap |-> Append(h, h[ref]), ref |-> Len(h) + 1]

\* s.add(x) on the set object referred to
set_add(h, ref, x) == [h EXCEPT ![ref] = @ \cup {x}]

\* a mutation of validate_columns: the identifier column is not added to the required set
validate_columns_no_id(df, id_col, h, ref) ==
    IF ref = 0
    THEN [out |-> Raise("TypeError", None), heap |-> h]
    ELSE LET c == set_copy(h, ref)
             missing == c.heap[c.ref] \ df.cols
         IN  [out |-> IF missing # {} THEN Raise("ValueError", missing) ELSE Return(None),
              heap |-> c.heap]

\* validate_columns(df, id_column, required_cols) on the heap h, required_cols being
\* the reference ref (0 is None); it gives the outcome and the heap it leaves
validate_columns(df, id_col, h, ref) ==
    IF ref = 0
    THEN [out |-> Raise("TypeError", None), heap |-> h]
    ELSE LET c == set_copy(h, ref)
             h2 == set_add(c.heap, c.ref, id_col)
             missing == h2[c.ref] \ df.cols
         IN  [out |-> IF missing # {} THEN Raise("ValueError", missing) ELSE Return(None),
              heap |-> h2]

\* validate_columns(df=df, id_column=id_col, required_cols=<a fresh set>)
Validate(df, id_col, required) == validate_columns(df, id_col, <<required>>, 1).out

\* the first outcome of a sequence of checks that raised, if any
FirstRaise(checks) ==
    IF \E i \in 1..Len(checks) : ~Returned(checks[i])
    THEN checks[CHOOSE i \in 1..Len(checks) :
                    /\ ~Returned(checks[i])
                    /\ \A j \in 1..(i - 1) : Returned(checks[j])]
    ELSE Return(None)

\* df[column] for each column of a sequence, in order: KeyError at the first absent one
ReadColumns(df, columns) ==
    FirstRaise([i \in 1..Len(columns) |->
                   IF columns[i] \in df.cols THEN Return(None)
                   ELSE Raise("KeyError", columns[i])])

(***************************************************************************)
(* clean.py                                                                *)
(***************************************************************************)
\* str.lstrip('0')
RECURSIVE LStripZeros(_)
LStripZeros(s) == IF s # <<>> /\ s[1] = "0" THEN LStripZeros(Tail(s)) ELSE s

\* astype(str) of a cell of a text column: a missing cell becomes the text 'nan'
AsTypeStr(v) == IF v = NaN THEN <<"n", "a", "n">> ELSE v

\* a mutation of remove_leading_zeros: only the first leading zero is removed
remove_first_zero(df, column) ==
    IF column \notin df.cols THEN Raise("ValueError", column)
    ELSE IF "ID" \notin df.cols THEN Raise("KeyError", "ID")
    ELSE Return([cols |-> df.cols,
                 rows |-> [i \in 1..Len(df.rows) |->
                     [df.rows[i] EXCEPT !["ID"] =
                         IF AsTypeStr(@) # <<>> /\ AsTypeStr(@)[1] = "0"
                         THEN Tail(AsTypeStr(@)) ELSE AsTypeStr(@)]]])

remove_leading_zeros(df, column) ==
    IF column \notin df.cols THEN Raise("ValueError", column)
    ELSE IF "ID" \notin df.cols THEN Raise("KeyError", "ID")
    ELSE Return([cols |-> df.cols,
                 rows |-> [i \in 1..Len(df.rows) |->
                     [df.rows[i] EXCEPT !["ID"] = LStripZeros(AsTypeStr(@))]]])

(***************************************************************************)
(* helper.py: the enrollment filter                                        *)
(***************************************************************************)
\* a mutation of enrollment_conditions: a row with a missing Degree is dropped
enrollment_conditions_degree_known(dfe, t) ==
    MaskAnd(MaskAnd(MaskAnd(ColEq(dfe, "Academic Period", t),
                            ColEq(dfe, "Time Status", <<"FT">>)),
                    ColEq(dfe, "Student Level", <<"UG">>)),
            [i \in 1..Len(dfe.rows) |->
                dfe.rows[i]["Degree"] \notin {NaN, <<"Non Degree">>}])

enrollment_conditions(dfe, t) ==
    MaskAnd(MaskAnd(MaskAnd(ColEq(dfe, "Academic Period", t),
                            ColEq(dfe, "Time Status", <<"FT">>)),
                    ColEq(dfe, "Student Level", <<"UG">>)),
            ColNe(dfe, "Degree", <<"Non Degree">>))

filter_enrollment_table(dfe, t) ==
    LET k == ReadColumns(dfe, <<"Academic Period", "Time Status", "Student Level", "Degree">>)
    IN  IF ~Returned(k) THEN k
        ELSE Return([cols |-> dfe.cols,
                     rows |-> KeepRows(dfe.rows, enrollment_conditions(dfe, t))])

(***************************************************************************)
(* headcount_calcs.py.  A rate is returned as a count of thousandths.      *)
(***************************************************************************)
TRANSFER == "Fall, Transfer, Full-Time"

\* a mutation of fall_enrollment_size: the non-transfer headcount is the set difference
fall_enrollment_size_setdiff(pids, eids, rids_t, pell, transfer) ==
    LET n_pell_intr == Cardinality(pids \cap eids \cap rids_t)
    IN  IF ~pell /\ ~transfer THEN Cardinality(eids \ rids_t)
        ELSE IF pell /\ ~transfer THEN Cardinality(pids \cap eids) - n_pell_intr
        ELSE IF ~pell /\ transfer THEN Cardinality(eids \cap rids_t)
        ELSE n_pell_intr

\* a mutation of fall_enrollment_size: the Pell non-transfer count keeps the transfers
fall_enrollment_size_pell_all(pids, eids, rids_t, pell, transfer) ==
    LET n_pell_intr == Cardinality(pids \cap eids \cap rids_t)
    IN  IF ~pell /\ ~transfer THEN Cardinality(eids) - Cardinality(rids_t)
        ELSE IF pell /\ ~transfer THEN Cardinality(pids \cap eids)
        ELSE IF ~pell /\ transfer THEN Cardinality(eids \cap rids_t)
        ELSE n_pell_intr

\* the branch of fall_enrollment on (pell, transfer)
fall_enrollment_size(pids, eids, rids_t, pell, transfer) ==
    LET n_pell_intr == Cardinality(pids \cap eids \cap rids_t)
    IN  IF ~pell /\ ~transfer THEN Cardinality(eids) - Cardinality(rids_t)
        ELSE IF pell /\ ~transfer THEN Cardinality(pids \cap eids) - n_pell_intr
        ELSE IF ~pell /\ transfer THEN Cardinality(eids \cap rids_t)
        ELSE n_pell_intr

fall_enrollment(dfp, dfr, dfe, id_col, t, pell, transfer) ==
    LET checks == <<Validate(dfp, id_col, required_pell_columns),
                    Validate(dfr, id_col, required_cohort_columns),
                    Validate(dfe, id_col, required_enrollment_columns),
                    calc_academic_year_from_term(t, TRUE)>>
        kept == filter_enrollment_table(dfe, t).val
        aid_year == calc_academic_year_from_term(t, TRUE).val
        incoming_transfer_cohort == Slice(t, 0, 4) \o <<" ">> \o <<TRANSFER>>
        pids == IdSet(dfp, id_col, ColEq(dfp, "AID_YEAR", aid_year))
        eids == IdSet(kept, id_col, AllRows(kept))
        rids_t == IdSet(dfr, id_col, ColEq(dfr, "Cohort Name", incoming_transfer_cohort))
    IN  IF ~Returned(FirstRaise(checks)) THEN FirstRaise(checks)
        ELSE Return(fall_enrollment_size(pids, eids, rids_t, pell, transfer))

\* a mutation of grs_cohort: the cohort size is the number of distinct identifiers
grs_cohort_distinct(dfr, id_col, t, cohort_column) ==
    LET checks == <<Validate(dfr, id_col, required_cohort_columns),
                    ReadColumns(dfr, <<cohort_column>>)>>
        cohort == construct_cohort(t, FED)
    IN  IF ~Returned(FirstRaise(checks)) THEN FirstRaise(checks)
        ELSE Return(Cardinality(IdSet(dfr, id_col, ColEq(dfr, cohort_column, cohort))))

grs_cohort(dfr, id_col, t, cohort_column) ==
    LET checks == <<Validate(dfr, id_col, required_cohort_columns),
                    ReadColumns(dfr, <<cohort_column>>)>>
        cohort == construct_cohort(t, FED)
    IN  IF ~Returned(FirstRaise(checks)) THEN FirstRaise(checks)
        ELSE Return(CountRows(ColEq(dfr, cohort_column, cohort)))

\* pd.to_numeric(dfr['Years to Graduation'].dropna(), errors='coerce') <= years_to_grad,
\* aligned back to the rows of dfr: a missing or non-numeric cell gives False
graduated_within(dfr, years_to_grad) ==
    [i \in 1..Len(dfr.rows) |->
        LET y == dfr.rows[i]["Years to Graduation"]
        IN  y # NaN /\ CanInt(y) /\ PyInt(y) <= years_to_grad]

\* a mutation of rate: an empty denominator gives the rate 0
rate_zero_safe(n, n_tot) ==
    IF n_tot = 0 THEN Return(0) ELSE Return(PyRound(n, n_tot, 3))

\* round(n / n_tot, 3)
rate(n, n_tot) ==
    IF n_tot = 0 THEN Raise("ZeroDivisionError", None) ELSE Return(PyRound(n, n_tot, 3))

\* a mutation of grs_cohort_grad: rows without 'Years to Graduation' leave the denominator
grs_cohort_grad_known_total(dfr, id_col, t, years_to_grad, cohort_column) ==
    LET checks == <<Validate(dfr, id_col, required_cohort_columns),
                    ReadColumns(dfr, <<cohort_column, "Years to Graduation">>)>>
        cohort == construct_cohort(t, FED)
        cond1 == ColEq(dfr, cohort_column, cohort)
        cond2 == graduated_within(dfr, years_to_grad)
        n_grad == CountRows(MaskAnd(cond1, cond2))
        known == [i \in 1..Len(dfr.rows) |-> dfr.rows[i]["Years to Graduation"] # NaN]
        n_tot == CountRows(MaskAnd(cond1, known))
    IN  IF ~Returned(FirstRaise(checks)) THEN FirstRaise(checks)
        ELSE rate(n_grad, n_tot)

\* a mutation of grs_cohort_grad: the graduates are counted in every cohort
grs_cohort_grad_any_cohort(dfr, id_col, t, years_to_grad, cohort_column) ==
    LET checks == <<Validate(dfr, id_col, required_cohort_columns),
                    ReadColumns(dfr, <<cohort_column, "Years to Graduation">>)>>
        n_grad == CountRows(graduated_within(dfr, years_to_grad))
        n_tot == grs_cohort(dfr, id_col, t, cohort_column).val
    IN  IF ~Returned(FirstRaise(checks)) THEN FirstRaise(checks)
        ELSE rate(n_grad, n_tot)

grs_cohort_grad(dfr, id_col, t, years_to_grad, cohort_column) ==
    LET checks == <<Validate(dfr, id_col, required_cohort_columns),
                    ReadColumns(dfr, <<cohort_column, "Years to Graduation">>)>>
        cohort == construct_cohort(t, FED)
        cond1 == ColEq(dfr, cohort_column, cohort)
        cond2 == graduated_within(dfr, years_to_grad)
        n_grad == CountRows(MaskAnd(cond1, cond2))
        n_tot == grs_cohort(dfr, id_col, t, cohort_column).val
    IN  IF ~Returned(FirstRaise(checks)) THEN FirstRaise(checks)
        ELSE rate(n_grad, n_tot)

\* a mutation of grs_cohort_pell: rows are counted, not distinct identifiers
grs_cohort_pell_rows(dfp, dfr, id_col, t, aid_year_column, cohort_column) ==
    LET checks == <<Validate(dfp, id_col, required_pell_columns),
                    Validate(dfr, id_col, required_cohort_columns),
                    calc_academic_year_from_term(t, TRUE),
                    ReadColumns(dfp, <<aid_year_column>>),
                    ReadColumns(dfr, <<cohort_column>>)>>
        aid_year == calc_academic_year_from_term(t, TRUE).val
        cohort == construct_cohort(t, FED)
        rids == IdSet(dfr, id_col, ColEq(dfr, cohort_column, cohort))
    IN  IF ~Returned(FirstRaise(checks)) THEN FirstRaise(checks)
        ELSE Return(CountRows([i \in 1..Len(dfp.rows) |->
                                  /\ PdEq(dfp.rows[i][aid_year_column], aid_year)
                                  /\ dfp.rows[i][id_col] \in rids]))

\* a mutation of grs_cohort_pell: the Pell recipients of every cohort of the table
grs_cohort_pell_any_cohort(dfp, dfr, id_col, t, aid_year_column, cohort_column) ==
    LET checks == <<Validate(dfp, id_col, required_pell_columns),
                    Validate(dfr, id_col, required_cohort_columns),
                    calc_academic_year_from_term(t, TRUE),
                    ReadColumns(dfp, <<aid_year_column>>),
                    ReadColumns(dfr, <<cohort_column>>)>>
        aid_year == calc_academic_year_from_term(t, TRUE).val
        pids == IdSet(dfp, id_col, ColEq(dfp, aid_year_column, aid_year))
        rids == IdSet(dfr, id_col, AllRows(dfr))
    IN  IF ~Returned(FirstRaise(checks)) THEN FirstRaise(checks)
        ELSE Return(Cardinality(pids \cap rids))

grs_cohort_pell(dfp, dfr, id_col, t, aid_year_column, cohort_column) ==
    LET checks == <<Validate(dfp, id_col, required_pell_columns),
                    Validate(dfr, id_col, required_cohort_columns),
                    calc_academic_year_from_term(t, TRUE),
                    ReadColumns(dfp, <<aid_year_column>>),
                    ReadColumns(dfr, <<cohort_column>>)>>
        aid_year == calc_academic_year_from_term(t, TRUE).val
        cohort == construct_cohort(t, FED)
        pids == IdSet(dfp, id_col, ColEq(dfp, aid_year_column, aid_year))
        rids == IdSet(dfr, id_col, ColEq(dfr, cohort_column, cohort))
    IN  IF ~Returned(FirstRaise(checks)) THEN FirstRaise(checks)
        ELSE Return(Cardinality(pids \cap rids))

\* a mutation of grs_cohort_pell_grad: every graduate of the cohort is counted
grs_cohort_pell_grad_all_graduates(dfp, dfr, id_col, t, years_to_grad, aid_year_column, cohort_column) ==
    LET checks == <<Validate(dfp, id_col, required_pell_columns),
                    Validate(dfr, id_col, required_cohort_columns),
                    calc_academic_year_from_term(t, TRUE),
                    ReadColumns(dfp, <<aid_year_column>>),
                    ReadColumns(dfr, <<cohort_column, "Years to Graduation">>)>>
        cohort == construct_cohort(t, FED)
        cond1 == ColEq(dfr, cohort_column, cohort)
        cond2 == graduated_within(dfr, years_to_grad)
        rids == IdSet(dfr, id_col, MaskAnd(cond1, cond2))
        n_tot == grs_cohort_pell(dfp, dfr, id_col, t, aid_year_column, cohort_column).val
    IN  IF ~Returned(FirstRaise(checks)) THEN FirstRaise(checks)
        ELSE rate(Cardinality(rids), n_tot)

grs_cohort_pell_grad(dfp, dfr, id_col, t, years_to_grad, aid_year_column, cohort_column) ==
    LET checks == <<Validate(dfp, id_col, required_pell_columns),
                    Validate(dfr, id_col, required_cohort_columns),
                    calc_academic_year_from_term(t, TRUE),
                    ReadColumns(dfp, <<aid_year_column>>),
                    ReadColumns(dfr, <<cohort_column, "Years to Graduation">>)>>
        aid_year == calc_academic_year_from_term(t, TRUE).val
        cohort == construct_cohort(t, FED)
        pids == IdSet(dfp, id_col, ColEq(dfp, aid_year_column, aid_year))
        cond1 == ColEq(dfr, cohort_column, cohort)
        cond2 == graduated_within(dfr, years_to_grad)
        rids == IdSet(dfr, id_col, MaskAnd(cond1, cond2))
        n_grad == Cardinality(pids \cap rids)
        n_tot == grs_cohort_pell(dfp, dfr, id_col, t, aid_year_column, cohort_column).val
    IN  IF ~Returned(FirstRaise(checks)) THEN FirstRaise(checks)
        ELSE rate(n_grad, n_tot)

second_year_retention_rate(dfr, id_col, t, cohort_column) ==
    LET checks == <<Validate(dfr, id_col, required_cohort_columns),
                    adjust_term(t, 1),
                    ReadColumns(dfr, <<cohort_column, "Academic Period 2nd Fall">>)>>
        retention_term == adjust_term(t, 1).val
        cohort == construct_cohort(t, FED)
        cond1 == ColEq(dfr, cohort_column, cohort)
        cond2 == ColEq(dfr, "Academic Period 2nd Fall", retention_term)
        n_ret == CountRows(MaskAnd(cond1, cond2))
        n_tot == grs_cohort(dfr, id_col, t, cohort_column).val
    IN  IF ~Returned(FirstRaise(checks)) THEN FirstRaise(checks)
        ELSE rate(n_ret, n_tot)

\* a mutation of second_year_retention_rate_pell: the second fall is the term itself
second_year_retention_rate_pell_same_term(dfp, dfr, id_col, t, aid_year_column, cohort_column) ==
    LET checks == <<Validate(dfp, id_col, required_pell_columns),
                    Validate(dfr, id_col, required_cohort_columns),
                    calc_academic_year_from_term(t, TRUE),
                    ReadColumns(dfp, <<aid_year_column>>),
                    ReadColumns(dfr, <<cohort_column, "Academic Period 2nd Fall">>)>>
        aid_year == calc_academic_year_from_term(t, TRUE).val
        cohort == construct_cohort(t, FED)
        pids == IdSet(dfp, id_col, ColEq(dfp, aid_year_column, aid_year))
        cond1 == ColEq(dfr, cohort_column, cohort)
        cond2 == ColEq(dfr, "Academic Period 2nd Fall", t)
        rids == IdSet(dfr, id_col, MaskAnd(cond1, cond2))
        n_ret == Cardinality(pids \cap rids)
        n_tot == grs_cohort_pell(dfp, dfr, id_col, t, aid_year_column, cohort_column).val
    IN  IF ~Returned(FirstRaise(checks)) THEN FirstRaise(checks)
        ELSE rate(n_ret, n_tot)

second_year_retention_rate_pell(dfp, dfr, id_col, t, aid_year_column, cohort_column) ==
    LET checks == <<Validate(dfp, id_col, required_pell_columns),
                    Validate(dfr, id_col, required_cohort_columns),
                    calc_academic_year_from_term(t, TRUE),
                    ReadColumns(dfp, <<aid_year_column>>),
                    adjust_term(t, 1),
                    ReadColumns(dfr, <<cohort_column, "Academic Period 2nd Fall">>)>>
        aid_year == calc_academic_year_from_term(t, TRUE).val
        retention_term == adjust_term(t, 1).val
        cohort == construct_cohort(t, FED)
        pids == IdSet(dfp, id_col, ColEq(dfp, aid_year_column, aid_year))
        cond1 == ColEq(dfr, cohort_column, cohort)
        cond2 == ColEq(dfr, "Academic Period 2nd Fall", retention_term)
        rids == IdSet(dfr, id_col, MaskAnd(cond1, cond2))
        n_ret == Cardinality(pids \cap rids)
        n_tot == grs_cohort_pell(dfp, dfr, id_col, t, aid_year_column, cohort_column).val
    IN  IF ~Returned(FirstRaise(checks)) THEN FirstRaise(checks)
        ELSE rate(n_ret, n_tot)

\* a mutation of total_headcount: rows are counted, not distinct identifiers
total_headcount_rows(dfe, t, id_col) ==
    LET checks == <<Validate(dfe, id_col, required_enrollment_columns)>>
        kept == filter_enrollment_table(dfe, t).val
    IN  IF ~Returned(FirstRaise(checks)) THEN FirstRaise(checks)
        ELSE Return(CountRows([i \in 1..Len(kept.rows) |-> kept.rows[i][id_col] # NaN]))

total_headcount(dfe, t, id_col) ==
    LET checks == <<Validate(dfe, id_col, required_enrollment_columns)>>
        kept == filter_enrollment_table(dfe, t).val
    IN  IF ~Returned(FirstRaise(checks)) THEN FirstRaise(checks)
        ELSE Return(Cardinality(IdSet(kept, id_col, AllRows(kept))))

(***************************************************************************)
(* tables_for_carol.py.  Each generator gives the file it writes.          *)
(***************************************************************************)
generate_ipeds_table_for_carol(dfr, acad_year, outpath) ==
    LET fiscal_year == Suffix(acad_year, 4)
        checks == <<ReadColumns(dfr, <<"Cohort Fiscal Year", "ID", "Person Uid", "Cohort",
                                       "Cohort Academic Period">>)>>
        kept == KeepRows(dfr.rows, ColEq(dfr, "Cohort Fiscal Year", fiscal_year))
        df == [cols |-> {"ID", "Person Uid", "Cohort", "Cohort Term"},
               rows |-> [i \in 1..Len(kept) |->
                           [ID |-> kept[i]["ID"],
                            Cohort |-> kept[i]["Cohort"]] @@
                           ("Person Uid" :> kept[i]["Person Uid"]) @@
                           ("Cohort Term" :> kept[i]["Cohort Academic Period"])]]
    IN  IF ~Returned(FirstRaise(checks)) THEN FirstRaise(checks)
        ELSE Return([dir |-> outpath,
                     name |-> acad_year \o <<" ">> \o
                         <<"All-Cohorts Student IDs from Undergraduate Retention and Graduation.xlsx">>,
                     table |-> df])

\* a mutation of generate_table_for_carol: one row per identifier
generate_table_for_carol_distinct(dfe, t, outpath) ==
    LET checks == <<filter_enrollment_table(dfe, t),
                    calc_academic_year_from_term(t, FALSE),
                    ReadColumns(dfe, <<"ID", "Person Uid">>)>>
        all == filter_enrollment_table(dfe, t).val.rows
        kept == KeepRows(all, [i \in 1..Len(all) |->
                                  \A j \in 1..(i - 1) : all[j]["ID"] # all[i]["ID"]])
        aid_year == calc_academic_year_from_term(t, FALSE).val
        df == [cols |-> {"ID", "Person Uid", "Academic Period", "Aid Year"},
               rows |-> [i \in 1..Len(kept) |->
                           [ID |-> kept[i]["ID"]] @@
                           ("Person Uid" :> kept[i]["Person Uid"]) @@
                           ("Academic Period" :> t) @@
                           ("Aid Year" :> aid_year)]]
    IN  IF ~Returned(FirstRaise(checks)) THEN FirstRaise(checks)
        ELSE Return([dir |-> outpath,
                     name |-> <<"Fall", " ">> \o Prefix(t, 4) \o <<" ">> \o
                         <<"Enrolled Full-Time Student IDs from Census Data Enrollment.xlsx">>,
                     table |-> df])

generate_table_for_carol(dfe, t, outpath) ==
    LET checks == <<filter_enrollment_table(dfe, t),
                    calc_academic_year_from_term(t, FALSE),
                    ReadColumns(dfe, <<"ID", "Person Uid">>)>>
        kept == filter_enrollment_table(dfe, t).val.rows
        aid_year == calc_academic_year_from_term(t, FALSE).val
        df == [cols |-> {"ID", "Person Uid", "Academic Period", "Aid Year"},
               rows |-> [i \in 1..Len(kept) |->
                           [ID |-> kept[i]["ID"]] @@
                           ("Person Uid" :> kept[i]["Person Uid"]) @@
                           ("Academic Period" :> t) @@
                           ("Aid Year" :> aid_year)]]
    IN  IF ~Returned(FirstRaise(checks)) THEN FirstRaise(checks)
        ELSE Return([dir |-> outpath,
                     name |-> <<"Fall", " ">> \o Prefix(t, 4) \o <<" ">> \o
                         <<"Enrolled Full-Time Student IDs from Census Data Enrollment.xlsx">>,
                     table |-> df])

(***************************************************************************)
(* Input tables.  The columns are those run.py and the metrics read; the   *)
(* cell values are text as infer_and_read_file loads it (dtype=str), with  *)
(* NaN for an empty cell.                                                  *)
(***************************************************************************)
PellCols == {"ID", "AID_YEAR"}

RetCols == {"ID", "Person Uid", "Cohort Name", "Cohort", "Cohort Academic Period",
            "Cohort Fiscal Year", "Years to Graduation", "Academic Period 2nd Fall"}

EnrCols == {"ID", "Person Uid", "Academic Period", "Time Status", "Student Level", "Degree"}

PellRow(id, aid_year) == [ID |-> id, AID_YEAR |-> aid_year]

RetRow(id, cohort_name, years_to_graduation, second_fall) ==
    [ID |-> id, Cohort |-> <<"FTFT">>] @@
    ("Person Uid" :> <<"u">>) @@
    ("Cohort Name" :> cohort_name) @@
    ("Cohort Academic Period" :> <<"2", "0", "2", "5", "8", "0">>) @@
    ("Cohort Fiscal Year" :> <<"2", "0", "2", "6">>) @@
    ("Years to Graduation" :> years_to_graduation) @@
    ("Academic Period 2nd Fall" :> second_fall)

EnrRow(id, academic_period, time_status, student_level, degree) ==
    [ID |-> id, Degree |-> degree] @@
    ("Person Uid" :> <<"u">>) @@
    ("Academic Period" :> academic_period) @@
    ("Time Status" :> time_status) @@
    ("Student Level" :> student_level)

\* the total number of rows of the three input tables
MaxRows == 3

Term2025 == <<"2", "0", "2", "5", "8", "0">>

Term2026 == <<"2", "0", "2", "6", "8", "0">>

Aid2526 == <<"2", "5", "2", "6">>

Aid2425 == <<"2", "4", "2", "5">>

Fed2025 == <<"2", "0", "2", "5", " ", "Fall, First-Time, Full-Time">>

Transfer2025 == <<"2", "0", "2", "5", " ", "Fall, Transfer, Full-Time">>

\* identifiers as loaded: missing, all zeros, plain, with a leading zero
IdVals == {NaN, <<"0">>, <<"1">>, <<"0", "1">>}

PellDomain ==
    {PellRow(i, Aid2526) : i \in IdVals} \cup {PellRow(<<"1">>, Aid2425)}

RetDomain ==
    {RetRow(i, Transfer2025, NaN, NaN) : i \in IdVals}
        \cup {RetRow(i, Fed2025, NaN, NaN) : i \in {<<"0">>, <<"1">>}}

EnrDomain ==
    {EnrRow(i, Term2025, <<"FT">>, <<"UG">>, <<"BA">>) : i \in IdVals}
        \cup {EnrRow(<<"1">>, Term2025, <<"PT">>, <<"UG">>, <<"BA">>)}

\* the tables with the given columns and n rows of a domain
TablesOf(columns, domain, n) == {[cols |-> columns, rows |-> rs] : rs \in [1..n -> domain]}

InitTables(pell, retn, enrl) ==
    \E a \in 0..MaxRows : \E b \in 0..(MaxRows - a) : \E c \in 0..(MaxRows - a - b) :
        /\ df_pell \in TablesOf(PellCols, pell, a)
        /\ df_ret \in TablesOf(RetCols, retn, b)
        /\ df_enrl \in TablesOf(EnrCols, enrl, c)

(***************************************************************************)
(* The headcount specification: the three tables are loaded, run.py        *)
(* standardizes the identifier column of each, and the headcount metrics   *)
(* are called on the tables the caller holds (as loaded, or standardized); *)
(* a behaviour follows the tables up to the result of one call.            *)
(***************************************************************************)
Init ==
    /\ InitTables(PellDomain, RetDomain, EnrDomain)
    /\ id_column = "ID"
    /\ term = Term2025
    /\ heap = <<>>
    /\ required_cols = 0
    /\ files = <<>>
    /\ pc = "loaded"
    /\ op = "none"
    /\ args = NoArgs
    /\ ret = NoCall

CallReady == pc \in {"loaded", "standardized"}

\* df_pell = remove_leading_zeros(df_pell, column=id_column)
StandardizePell ==
    /\ pc = "loaded"
    /\ LET r == remove_leading_zeros(df_pell, id_column)
       IN  /\ ret' = r
           /\ df_pell' = IF Returned(r) THEN r.val ELSE df_pell
           /\ pc' = IF Returned(r) THEN "std_pell" ELSE "failed"
    /\ op' = "remove_leading_zeros"
    /\ args' = [table |-> "pell", column |-> id_column]
    /\ UNCHANGED <<df_ret, df_enrl, id_column, term, heap, required_cols, files>>

\* df_ret = remove_leading_zeros(df_ret, column=id_column)
StandardizeRet ==
    /\ pc = "std_pell"
    /\ LET r == remove_leading_zeros(df_ret, id_column)
       IN  /\ ret' = r
           /\ df_ret' = IF Returned(r) THEN r.val ELSE df_ret
           /\ pc' = IF Returned(r) THEN "std_ret" ELSE "failed"
    /\ op' = "remove_leading_zeros"
    /\ args' = [table |-> "ret", column |-> id_column]
    /\ UNCHANGED <<df_pell, df_enrl, id_column, term, heap, required_cols, files>>

\* df_enrl = remove_leading_zeros(df_enrl, column=id_column)
StandardizeEnrl ==
    /\ pc = "std_ret"
    /\ LET r == remove_leading_zeros(df_enrl, id_column)
       IN  /\ ret' = r
           /\ df_enrl' = IF Returned(r) THEN r.val ELSE df_enrl
           /\ pc' = IF Returned(r) THEN "standardized" ELSE "failed"
    /\ op' = "remove_leading_zeros"
    /\ args' = [table |-> "enrl", column |-> id_column]
    /\ UNCHANGED <<df_pell, df_ret, id_column, term, heap, required_cols, files>>

\* a call leaves the caller's tables and parameters as they are; its result is reported
CallFrame ==
    /\ pc' = IF pc = "loaded" THEN "called_loaded" ELSE "called_standardized"
    /\ UNCHANGED <<tables, id_column, term, heap, required_cols, files>>

\* the identifier columns were standardized before the call
Standardized == pc \in {"standardized", "called_standardized"}

GrsCohort ==
    /\ CallReady
    /\ op' = "grs_cohort"
    /\ args' = [term |-> term]
    /\ ret' = grs_cohort(df_ret, "ID", term, "Cohort Name")
    /\ CallFrame

GrsCohortPell ==
    /\ CallReady
    /\ op' = "grs_cohort_pell"
    /\ args' = [term |-> term]
    /\ ret' = grs_cohort_pell(df_pell, df_ret, "ID", term, "AID_YEAR", "Cohort Name")
    /\ CallFrame

TotalHeadcount ==
    /\ CallReady
    /\ op' = "total_headcount"
    /\ args' = [term |-> term]
    /\ ret' = total_headcount(df_enrl, term, id_column)
    /\ CallFrame

FallEnrollment ==
    /\ CallReady
    /\ \E pell \in BOOLEAN, transfer \in BOOLEAN :
        /\ args' = [term |-> term, pell |-> pell, transfer |-> transfer]
        /\ ret' = fall_enrollment(df_pell, df_ret, df_enrl, id_column, term, pell, transfer)
    /\ op' = "fall_enrollment"
    /\ CallFrame

\* run.py's enrollment block: total_headcount and the four fall_enrollment calls on the
\* same tables; the result is the five counts, or the first failure
EnrollmentCounts ==
    /\ CallReady
    /\ LET headcount == total_headcount(df_enrl, term, id_column)
           headcount_nottr ==
               fall_enrollment(df_pell, df_ret, df_enrl, id_column, term, FALSE, FALSE)
           pell_nottr ==
               fall_enrollment(df_pell, df_ret, df_enrl, id_column, term, TRUE, FALSE)
           headcount_transfer ==
               fall_enrollment(df_pell, df_ret, df_enrl, id_column, term, FALSE, TRUE)
           transfer_pell ==
               fall_enrollment(df_pell, df_ret, df_enrl, id_column, term, TRUE, TRUE)
           calls == <<headcount, headcount_nottr, pell_nottr, headcount_transfer,
                      transfer_pell>>
       IN  ret' = IF ~Returned(FirstRaise(calls)) THEN FirstRaise(calls)
                  ELSE Return([headcount |-> headcount.val,
                               headcount_nottr |-> headcount_nottr.val,
                               pell_nottr |-> pell_nottr.val,
                               headcount_transfer |-> headcount_transfer.val,
                               transfer_pell |-> transfer_pell.val])
    /\ op' = "enrollment_counts"
    /\ args' = [term |-> term]
    /\ CallFrame

Next ==
    \/ StandardizePell
    \/ StandardizeRet
    \/ StandardizeEnrl
    \/ GrsCohort
    \/ GrsCohortPell
    \/ TotalHeadcount
    \/ FallEnrollment
    \/ EnrollmentCounts

Spec == Init /\ [][Next]_vars

(***************************************************************************)
(* The populations the headcount claims speak of, stated from the tables.  *)
(***************************************************************************)
\* the distinct identifiers of the rows of a table whose column has the value
Identifiers(df, column, value) ==
    {df.rows[i]["ID"] : i \in {j \in 1..Len(df.rows) : df.rows[j][column] = value}} \ {NaN}

\* the two-digit-pair academic year of a term: 'yy' followed by the two digits of yy + 1
TwoDigitPair(t) ==
    LET nxt == (NatOf(SubSeq(t, 3, 4)) + 1) % 100
    IN  SubSeq(t, 3, 4) \o <<Digit[(nxt \div 10) + 1], Digit[(nxt % 10) + 1]>>

\* P: Pell recipients of the term's aid year
PellPop == Identifiers(df_pell, "AID_YEAR", TwoDigitPair(term))

\* E: the rows kept by filter_enrollment_table for the term
EnrolledPop ==
    LET kept == filter_enrollment_table(df_enrl, term).val
    IN  {kept.rows[i]["ID"] : i \in 1..Len(kept.rows)} \ {NaN}

\* T: incoming transfer students of the term's year
TransferPop ==
    Identifiers(df_ret, "Cohort Name", SubSeq(term, 1, 4) \o <<" ", "Fall, Transfer, Full-Time">>)

\* the FED cohort of the term's year
FedPop ==
    Identifiers(df_ret, "Cohort Name", SubSeq(term, 1, 4) \o <<" ", "Fall, First-Time, Full-Time">>)

AddRow(df, r) == [df EXCEPT !.rows = Append(@, r)]

\* the claim for grs_cohort_pell, total_headcount and the four fall_enrollment cases
C2_SetMetrics ==
    /\ op = "grs_cohort_pell" =>
        /\ \A r \in PellDomain : r["ID"] \in PellPop =>
              grs_cohort_pell(AddRow(df_pell, r), df_ret, "ID", term, "AID_YEAR", "Cohort Name") = ret
        /\ \A r \in RetDomain : r["ID"] \in FedPop =>
              grs_cohort_pell(df_pell, AddRow(df_ret, r), "ID", term, "AID_YEAR", "Cohort Name") = ret
    /\ op = "total_headcount" =>
        \A r \in EnrDomain : r["ID"] \in EnrolledPop =>
              total_headcount(AddRow(df_enrl, r), term, id_column) = ret
    /\ op = "fall_enrollment" =>
        /\ \A r \in PellDomain : r["ID"] \in PellPop =>
              fall_enrollment(AddRow(df_pell, r), df_ret, df_enrl, id_column, term,
                              args.pell, args.transfer) = ret
        /\ \A r \in RetDomain : r["ID"] \in TransferPop =>
              fall_enrollment(df_pell, AddRow(df_ret, r), df_enrl, id_column, term,
                              args.pell, args.transfer) = ret
        /\ \A r \in EnrDomain : r["ID"] \in EnrolledPop =>
              fall_enrollment(df_pell, df_ret, AddRow(df_enrl, r), id_column, term,
                              args.pell, args.transfer) = ret

\* the claim for grs_cohort
C2_GrsCohort ==
    op = "grs_cohort" =>
        \A r \in RetDomain : r["ID"] \in FedPop =>
            grs_cohort(AddRow(df_ret, r), "ID", term, "Cohort Name") = ret

\* C2 as stated: every headcount metric, grs_cohort included, counts distinct identifiers
C2_AsStated == C2_SetMetrics /\ C2_GrsCohort

(***************************************************************************)
(* C2 as amended: grs_cohort_pell, total_headcount and each of the four    *)
(* fall_enrollment cases count distinct identifiers, so a further row      *)
(* carrying an identifier of a counted row of the same table never changes *)
(* their result; grs_cohort counts rows, and a further row of the FED      *)
(* cohort carrying an identifier already in the cohort raises it by one.   *)
(***************************************************************************)
C2_DistinctIdentifiers ==
    /\ C2_SetMetrics
    /\ op = "grs_cohort" =>
        \A r \in RetDomain : (r["ID"] \in FedPop /\ r["Cohort Name"] = Fed2025) =>
            grs_cohort(AddRow(df_ret, r), "ID", term, "Cohort Name") = Return(ret.val + 1)

\* two kept enrollment rows carry the same identifier and are counted once
C2_Witness ==
    /\ op = "total_headcount"
    /\ \E i, j \in 1..Len(df_enrl.rows) :
          /\ i # j
          /\ df_enrl.rows[i]["ID"] = df_enrl.rows[j]["ID"]
          /\ df_enrl.rows[i]["ID"] \in EnrolledPop
          /\ enrollment_conditions(df_enrl, term)[i]
          /\ enrollment_conditions(df_enrl, term)[j]
    /\ ret = Return(1)

(***************************************************************************)
(* C3: in the pipeline (identifiers standardized, then a metric), a row    *)
(* whose identifier is missing or blank contributes to no identifier set:  *)
(* grs_cohort_pell, total_headcount and fall_enrollment give what they     *)
(* give on the tables without such rows.                                   *)
(***************************************************************************)
BlankId(v) == v = NaN \/ v = <<>> \/ v = <<"n", "a", "n">>

DropBlank(df) ==
    [df EXCEPT !.rows = KeepRows(@, [i \in 1..Len(@) |-> ~BlankId(@[i]["ID"])])]

C3_AsStated ==
    Standardized =>
        /\ op = "grs_cohort_pell" =>
              ret = grs_cohort_pell(DropBlank(df_pell), DropBlank(df_ret), "ID", term,
                                    "AID_YEAR", "Cohort Name")
        /\ op = "total_headcount" =>
              ret = total_headcount(DropBlank(df_enrl), term, id_column)
        /\ op = "fall_enrollment" =>
              ret = fall_enrollment(DropBlank(df_pell), DropBlank(df_ret), DropBlank(df_enrl),
                                    id_column, term, args.pell, args.transfer)

(***************************************************************************)
(* The rate specification: the graduation and retention rates of the FED   *)
(* cohort and of its Pell recipients, called on loaded tables.             *)
(***************************************************************************)
RateIds == {<<"1">>, <<"2">>}

PellRateDomain ==
    {PellRow(i, Aid2526) : i \in RateIds \cup {NaN}} \cup {PellRow(<<"1">>, Aid2425)}

RetRateDomain ==
    {RetRow(i, Fed2025, <<"4">>, Term2026) : i \in RateIds \cup {NaN}}
        \cup {RetRow(i, Fed2025, <<"5">>, NaN) : i \in RateIds}
        \cup {RetRow(i, Fed2025, NaN, Term2026) : i \in RateIds}
        \cup {RetRow(i, Fed2025, <<"W">>, Term2025) : i \in RateIds}
        \cup {RetRow(i, Transfer2025, <<"4">>, Term2026) : i \in RateIds}

\* the years_to_grad arguments run.py passes
YearsToGrad == {4, 6}

InitRates ==
    /\ InitTables(PellRateDomain, RetRateDomain, {})
    /\ id_column = "ID"
    /\ term = Term2025
    /\ heap = <<>>
    /\ required_cols = 0
    /\ files = <<>>
    /\ pc = "loaded"
    /\ op = "none"
    /\ args = NoArgs
    /\ ret = NoCall

GrsCohortGrad ==
    /\ CallReady
    /\ \E y \in YearsToGrad :
        /\ args' = [term |-> term, years_to_grad |-> y]
        /\ ret' = grs_cohort_grad(df_ret, "ID", term, y, "Cohort Name")
    /\ op' = "grs_cohort_grad"
    /\ CallFrame

GrsCohortPellGrad ==
    /\ CallReady
    /\ \E y \in YearsToGrad :
        /\ args' = [term |-> term, years_to_grad |-> y]
        /\ ret' = grs_cohort_pell_grad(df_pell, df_ret, "ID", term, y, "AID_YEAR", "Cohort Name")
    /\ op' = "grs_cohort_pell_grad"
    /\ CallFrame

SecondYearRetentionRate ==
    /\ CallReady
    /\ op' = "second_year_retention_rate"
    /\ args' = [term |-> term]
    /\ ret' = second_year_retention_rate(df_ret, "ID", term, "Cohort Name")
    /\ CallFrame

SecondYearRetentionRatePell ==
    /\ CallReady
    /\ op' = "second_year_retention_rate_pell"
    /\ args' = [term |-> term]
    /\ ret' = second_year_retention_rate_pell(df_pell, df_ret, "ID", term, "AID_YEAR", "Cohort Name")
    /\ CallFrame

NextRates ==
    \/ GrsCohort
    \/ GrsCohortPell
    \/ GrsCohortGrad
    \/ GrsCohortPellGrad
    \/ SecondYearRetentionRate
    \/ SecondYearRetentionRatePell

SpecRates == InitRates /\ [][NextRates]_vars

RateOps == {"grs_cohort_grad", "grs_cohort_pell_grad",
            "second_year_retention_rate", "second_year_retention_rate_pell"}

\* the rows of the FED cohort of the term's year
FedRows ==
    {i \in 1..Len(df_ret.rows) :
        df_ret.rows[i]["Cohort Name"] = SubSeq(term, 1, 4) \o <<" ", "Fall, First-Time, Full-Time">>}

(***************************************************************************)
(* C5: whenever the denominator cohort is not empty, each of the four rate *)
(* functions returns a value in [0, 1] (0 to 1000 thousandths).            *)
(***************************************************************************)
C5_RateInUnitInterval ==
    /\ (op \in {"grs_cohort_grad", "second_year_retention_rate"} /\ FedRows # {}) =>
          Returned(ret) /\ ret.val \in 0..1000
    /\ (op \in {"grs_cohort_pell_grad", "second_year_retention_rate_pell"}
            /\ PellPop \cap FedPop # {}) =>
          Returned(ret) /\ ret.val \in 0..1000

\* a cohort of which some, but not all, graduated in time
C5_Witness ==
    /\ op = "grs_cohort_grad"
    /\ Cardinality(FedRows) > 1
    /\ \E i \in 1..Len(df_ret.rows) : df_ret.rows[i]["Cohort Name"] = Transfer2025
    /\ Returned(ret)
    /\ ret.val = 500

(***************************************************************************)
(* C6: a rate function fails with a division by zero exactly when its      *)
(* denominator is zero (the FED cohort has no rows; for the Pell rates,    *)
(* no Pell recipient of the aid year is in the FED cohort), and returns a  *)
(* value in every other case.                                              *)
(***************************************************************************)
C6_DivisionByZero ==
    /\ op \in {"grs_cohort_grad", "second_year_retention_rate"} =>
          /\ Raised(ret, "ZeroDivisionError") <=> FedRows = {}
          /\ Returned(ret) <=> FedRows # {}
    /\ op \in {"grs_cohort_pell_grad", "second_year_retention_rate_pell"} =>
          /\ Raised(ret, "ZeroDivisionError") <=> PellPop \cap FedPop = {}
          /\ Returned(ret) <=> PellPop \cap FedPop # {}

\* a FED cohort that is not empty and has no Pell recipient
C6_Witness ==
    /\ op = "grs_cohort_pell_grad"
    /\ FedRows # {}
    /\ PellPop # {}
    /\ Raised(ret, "ZeroDivisionError")

(***************************************************************************)
(* The column-contract specification: tables that lack some of their       *)
(* columns are handed to validate_columns, to the metrics and to the       *)
(* extract generators.                                                     *)
(***************************************************************************)
\* the number of columns missing from the three tables together
MaxMissing == 2

FullPell == [cols |-> PellCols, rows |-> <<PellRow(<<"1">>, Aid2526)>>]

FullRet == [cols |-> RetCols, rows |-> <<RetRow(<<"1">>, Fed2025, <<"4">>, Term2026)>>]

FullEnrl == [cols |-> EnrCols,
             rows |-> <<EnrRow(<<"1">>, Term2025, <<"FT">>, <<"UG">>, <<"BA">>)>>]

\* a table without the columns of a set
Without(df, gone) ==
    [cols |-> df.cols \ gone,
     rows |-> [i \in 1..Len(df.rows) |-> [c \in df.cols \ gone |-> df.rows[i][c]]]]

AllColumns ==
    ({"pell"} \X PellCols) \cup ({"ret"} \X RetCols) \cup ({"enrl"} \X EnrCols)

GoneFrom(missing, table) == {m[2] : m \in {x \in missing : x[1] = table}}

\* the sets a caller passes as required_cols
RequiredSets == {{}, {"Cohort Name"}, {"AID_YEAR"}, {"Cohort Name", "Years to Graduation"},
                 {"Academic Period", "Time Status", "Student Level", "Degree"}}

CohortColumnArgs == {"Cohort Name", "Cohort"}

AidYearColumnArgs == {"AID_YEAR", "Aid Year"}

AcadYear2526 == <<"2", "0", "2", "5", "-", "2", "0", "2", "6">>

InitCols ==
    /\ \E missing \in {m \in SUBSET AllColumns : Cardinality(m) <= MaxMissing} :
        /\ df_pell = Without(FullPell, GoneFrom(missing, "pell"))
        /\ df_ret = Without(FullRet, GoneFrom(missing, "ret"))
        /\ df_enrl = Without(FullEnrl, GoneFrom(missing, "enrl"))
    /\ id_column \in {"ID", "SID"}
    /\ term = Term2025
    /\ \/ heap = <<>> /\ required_cols = 0
       \/ \E s \in RequiredSets : heap = <<s>> /\ required_cols = 1
    /\ files = <<>>
    /\ pc = "loaded"
    /\ op = "none"
    /\ args = NoArgs
    /\ ret = NoCall

TableNamed(name) == IF name = "pell" THEN df_pell ELSE IF name = "ret" THEN df_ret ELSE df_enrl

\* validate_columns(df, id_column, required_cols) with the caller's own set (or None);
\* the set objects the call created are dropped when it ends
ValidateColumns ==
    /\ pc = "loaded"
    /\ \E name \in {"pell", "ret", "enrl"} :
        LET r == validate_columns(TableNamed(name), id_column, heap, required_cols)
        IN  /\ args' = [table |-> name]
            /\ ret' = r.out
            /\ heap' = SubSeq(r.heap, 1, Len(heap))
    /\ op' = "validate_columns"
    /\ pc' = "called_loaded"
    /\ UNCHANGED <<tables, id_column, term, required_cols, files>>

ColsGrsCohort ==
    /\ CallReady
    /\ \E cc \in CohortColumnArgs :
        /\ args' = [cohort_column |-> cc]
        /\ ret' = grs_cohort(df_ret, id_column, term, cc)
    /\ op' = "grs_cohort"
    /\ CallFrame

ColsGrsCohortGrad ==
    /\ CallReady
    /\ \E cc \in CohortColumnArgs :
        /\ args' = [cohort_column |-> cc]
        /\ ret' = grs_cohort_grad(df_ret, id_column, term, 4, cc)
    /\ op' = "grs_cohort_grad"
    /\ CallFrame

ColsGrsCohortPell ==
    /\ CallReady
    /\ \E cc \in CohortColumnArgs, ac \in AidYearColumnArgs :
        /\ args' = [cohort_column |-> cc, aid_year_column |-> ac]
        /\ ret' = grs_cohort_pell(df_pell, df_ret, id_column, term, ac, cc)
    /\ op' = "grs_cohort_pell"
    /\ CallFrame

ColsGrsCohortPellGrad ==
    /\ CallReady
    /\ \E cc \in CohortColumnArgs, ac \in AidYearColumnArgs :
        /\ args' = [cohort_column |-> cc, aid_year_column |-> ac]
        /\ ret' = grs_cohort_pell_grad(df_pell, df_ret, id_column, term, 4, ac, cc)
    /\ op' = "grs_cohort_pell_grad"
    /\ CallFrame

ColsSecondYearRetentionRate ==
    /\ CallReady
    /\ \E cc \in CohortColumnArgs :
        /\ args' = [cohort_column |-> cc]
        /\ ret' = second_year_retention_rate(df_ret, id_column, term, cc)
    /\ op' = "second_year_retention_rate"
    /\ CallFrame

ColsSecondYearRetentionRatePell ==
    /\ CallReady
    /\ \E cc \in CohortColumnArgs, ac \in AidYearColumnArgs :
        /\ args' = [cohort_column |-> cc, aid_year_column |-> ac]
        /\ ret' = second_year_retention_rate_pell(df_pell, df_ret, id_column, term, ac, cc)
    /\ op' = "second_year_retention_rate_pell"
    /\ CallFrame

\* an extract generator writes its file and returns None, or raises
WriteExtract(r) ==
    /\ ret' = IF Returned(r) THEN Return(None) ELSE r
    /\ files' = IF Returned(r) THEN Append(files, r.val) ELSE files
    /\ pc' = IF pc = "loaded" THEN "called_loaded" ELSE "called_standardized"
    /\ UNCHANGED <<tables, id_column, term, heap, required_cols>>

GenerateTableForCarol ==
    /\ CallReady
    /\ op' = "generate_table_for_carol"
    /\ args' = [term |-> term]
    /\ WriteExtract(generate_table_for_carol(df_enrl, term, <<"results">>))

GenerateIpedsTableForCarol ==
    /\ CallReady
    /\ op' = "generate_ipeds_table_for_carol"
    /\ args' = [acad_year |-> AcadYear2526]
    /\ WriteExtract(generate_ipeds_table_for_carol(df_ret, AcadYear2526, <<"results">>))

NextCols ==
    \/ ValidateColumns
    \/ ColsGrsCohort
    \/ ColsGrsCohortGrad
    \/ ColsGrsCohortPell
    \/ ColsGrsCohortPellGrad
    \/ ColsSecondYearRetentionRate
    \/ ColsSecondYearRetentionRatePell
    \/ TotalHeadcount
    \/ FallEnrollment
    \/ GenerateTableForCarol
    \/ GenerateIpedsTableForCarol

SpecCols == InitCols /\ [][NextCols]_vars

\* the cohort_column / aid_year_column argument of the call (the default when not passed)
CohortArg == IF "cohort_column" \in DOMAIN args THEN args.cohort_column ELSE "Cohort Name"

AidYearArg == IF "aid_year_column" \in DOMAIN args THEN args.aid_year_column ELSE "AID_YEAR"

ConsumerOps == RateOps \cup {"grs_cohort", "grs_cohort_pell", "total_headcount",
                             "fall_enrollment", "generate_table_for_carol",
                             "generate_ipeds_table_for_carol"}

\* the columns the operation of the last call reads from each table
ColumnsRead ==
    [pell |->
        IF op \in {"grs_cohort_pell", "grs_cohort_pell_grad",
                   "second_year_retention_rate_pell"}
        THEN {AidYearArg, id_column}
        ELSE IF op = "fall_enrollment" THEN {"AID_YEAR", id_column}
        ELSE {},
     ret |->
        IF op = "grs_cohort" THEN {CohortArg}
        ELSE IF op = "grs_cohort_grad" THEN {CohortArg, "Years to Graduation"}
        ELSE IF op = "grs_cohort_pell" THEN {CohortArg, id_column}
        ELSE IF op = "grs_cohort_pell_grad"
            THEN {CohortArg, "Years to Graduation", id_column}
        ELSE IF op = "second_year_retention_rate"
            THEN {CohortArg, "Academic Period 2nd Fall"}
        ELSE IF op = "second_year_retention_rate_pell"
            THEN {CohortArg, "Academic Period 2nd Fall", id_column}
        ELSE IF op = "fall_enrollment" THEN {"Cohort Name", id_column}
        ELSE IF op = "generate_ipeds_table_for_carol"
            THEN {"Cohort Fiscal Year", "ID", "Person Uid", "Cohort", "Cohort Academic Period"}
        ELSE {},
     enrl |->
        IF op \in {"total_headcount", "fall_enrollment"}
        THEN {"Academic Period", "Time Status", "Student Level", "Degree", id_column}
        ELSE IF op = "generate_table_for_carol"
            THEN {"Academic Period", "Time Status", "Student Level", "Degree",
                  "ID", "Person Uid"}
        ELSE {}]

\* the columns the last call reads that its tables lack
AbsentRead ==
    (ColumnsRead.pell \ df_pell.cols) \cup (ColumnsRead.ret \ df_ret.cols)
        \cup (ColumnsRead.enrl \ df_enrl.cols)

(***************************************************************************)
(* C7, as stated: each of the eight metrics and two extract generators     *)
(* fails with the missing-columns ValueError whenever a column it reads    *)
(* from a table is absent; an absent column surfaces as no other failure.  *)
(***************************************************************************)
C7_AsStated ==
    (op \in ConsumerOps /\ AbsentRead # {}) => Raised(ret, "ValueError")

(***************************************************************************)
(* C8: validate_columns with a set of required columns raises the          *)
(* ValueError naming exactly (required_cols + id_column) minus the columns *)
(* of the table when that set is not empty and returns None otherwise, and *)
(* leaves the table and the caller's required_cols set as they were.       *)
(***************************************************************************)
C8_ValidateColumns ==
    [][(op' = "validate_columns" /\ required_cols # 0) =>
          LET missing == (heap[required_cols] \cup {id_column})
                             \ TableNamed(args'.table).cols
          IN  /\ missing # {} => ret' = Raise("ValueError", missing)
              /\ missing = {} => ret' = Return(None)
              /\ heap' = heap
              /\ required_cols' = required_cols
              /\ tables' = tables]_vars

\* the table lacks a required column and the identifier column: both are named
C8_Witness ==
    /\ op = "validate_columns"
    /\ required_cols # 0
    /\ Raised(ret, "ValueError")
    /\ id_column \in ret.detail
    /\ Cardinality(ret.detail) = 2
    /\ id_column \notin heap[required_cols]

(***************************************************************************)
(* C9, as stated: validate_columns called with required_cols None (its     *)
(* default) checks the identifier column alone: ValueError naming it when  *)
(* it is absent from the table, None otherwise.                            *)
(***************************************************************************)
C9_AsStated ==
    (op = "validate_columns" /\ required_cols = 0) =>
        IF id_column \in TableNamed(args.table).cols
        THEN ret = Return(None)
        ELSE ret = Raise("ValueError", {id_column})

(***************************************************************************)
(* The standardization specification: run.py's three remove_leading_zeros  *)
(* calls on tables whose identifier column is named 'ID', 'SID', or both   *)
(* are present.                                                            *)
(***************************************************************************)
IdLayouts == {{"ID"}, {"SID"}, {"ID", "SID"}}

CleanVals == {<<"0", "0", "1", "2", "3">>, <<"0", "0", "0", "0">>, <<"1", "2", "3">>, NaN}

CleanValsShort == {<<"0", "0", "7">>, <<"7", "0">>}

\* a one-row table with the identifier columns of a layout and one more column
CleanTable(ids, other, value) ==
    [cols |-> DOMAIN ids \cup {other},
     rows |-> <<ids @@ (other :> value)>>]

InitClean ==
    /\ \E layout \in IdLayouts :
        /\ \E ids \in [layout -> CleanVals] :
            df_pell = CleanTable(ids, "AID_YEAR", Aid2526)
        /\ \E ids \in [layout -> CleanValsShort] :
            df_ret = CleanTable(ids, "Cohort Name", Fed2025)
        /\ \E ids \in [layout -> CleanValsShort] :
            df_enrl = CleanTable(ids, "Academic Period", Term2025)
    /\ id_column \in {"ID", "SID"}
    /\ term = Term2025
    /\ heap = <<>>
    /\ required_cols = 0
    /\ files = <<>>
    /\ pc = "loaded"
    /\ op = "none"
    /\ args = NoArgs
    /\ ret = NoCall

NextClean ==
    \/ StandardizePell
    \/ StandardizeRet
    \/ StandardizeEnrl

SpecClean == InitClean /\ [][NextClean]_vars

(***************************************************************************)
(* C4, as stated: remove_leading_zeros(df, column) with column present     *)
(* returns the table with the leading '0' characters removed from every    *)
(* text value of the column named by column and every other column         *)
(* unchanged; with column absent it fails with a ValueError.               *)
(***************************************************************************)
C4_AsStated ==
    [][op' = "remove_leading_zeros" =>
          LET old == TableNamed(args'.table)
              column == args'.column
          IN  IF column \in old.cols
              THEN /\ Returned(ret')
                   /\ ret'.val.cols = old.cols
                   /\ Len(ret'.val.rows) = Len(old.rows)
                   /\ \A i \in 1..Len(old.rows) :
                        /\ old.rows[i][column] # NaN =>
                              ret'.val.rows[i][column] = LStripZeros(old.rows[i][column])
                        /\ \A c \in old.cols \ {column} :
                              ret'.val.rows[i][c] = old.rows[i][c]
              ELSE Raised(ret', "ValueError")]_vars

(***************************************************************************)
(* C11, as stated: for every six-digit term, calc_academic_year_from_term  *)
(* with two_digit=True returns exactly four characters, the two-digit year *)
(* of the term followed by the two digits of the following year, and with  *)
(* two_digit=False returns the four-digit year, '-', and the next year.    *)
(***************************************************************************)
C11_AsStated ==
    (op = "calc_academic_year_from_term" /\ IsTermCode(term)) =>
        /\ Returned(ret)
        /\ args.two_digit =>
              /\ Len(ret.val) = 4
              /\ ret.val = TwoDigitPair(term)
        /\ ~args.two_digit =>
              ret.val = SubSeq(term, 1, 4) \o <<"-">> \o StrNat(YearOf(term) + 1)

NumericAtMost(v, y) ==
    /\ v # NaN
    /\ v # <<>>
    /\ \A k \in 1..Len(v) : IsDigit(v[k])
    /\ NatOf(v) <= y

\* the FED cohort rows that graduated within y years
GradRows(y) == {i \in FedRows : NumericAtMost(df_ret.rows[i]["Years to Graduation"], y)}

\* G: the identifiers of the FED cohort rows that graduated within y years
GradPop(y) == {df_ret.rows[i]["ID"] : i \in GradRows(y)} \ {NaN}

\* the FED cohort rows whose second fall is the term one year on
RetainedRows ==
    {i \in FedRows :
        df_ret.rows[i]["Academic Period 2nd Fall"]
            = StrNat(YearOf(term) + 1) \o SubSeq(term, 5, 6)}

\* R: the identifiers of the retained FED cohort rows
RetainedPop == {df_ret.rows[i]["ID"] : i \in RetainedRows} \ {NaN}

(***************************************************************************)
(* C13: with a non-empty FED cohort, grs_cohort_grad returns the number of *)
(* FED cohort rows whose 'Years to Graduation' is numeric and at most      *)
(* years_to_grad, divided by the number of FED cohort rows, rounded to 3   *)
(* decimals; a blank, missing or non-numeric cell is not counted in the    *)
(* numerator and is counted in the denominator.                            *)
(***************************************************************************)
C13_GrsCohortGrad ==
    (op = "grs_cohort_grad" /\ FedRows # {}) =>
        /\ Returned(ret)
        /\ ret.val = PyRound(Cardinality(GradRows(args.years_to_grad)),
                             Cardinality(FedRows), 3)

\* a cohort of a graduate and a row whose 'Years to Graduation' is missing or not numeric
C13_Witness ==
    /\ op = "grs_cohort_grad"
    /\ Cardinality(FedRows) = 2
    /\ \E i \in FedRows : df_ret.rows[i]["Years to Graduation"] \in {NaN, <<"W">>}
    /\ Cardinality(GradRows(args.years_to_grad)) = 1
    /\ Returned(ret)
    /\ ret.val = 500

(***************************************************************************)
(* C14: with grs_cohort_pell > 0, grs_cohort_pell_grad returns |P n G|     *)
(* divided by grs_cohort_pell, rounded to 3 decimals, P being the Pell     *)
(* identifiers of the term's aid year and G the identifiers of the FED     *)
(* cohort rows graduated within years_to_grad.                             *)
(***************************************************************************)
C14_GrsCohortPellGrad ==
    (op = "grs_cohort_pell_grad" /\ PellPop \cap FedPop # {}) =>
        /\ Returned(ret)
        /\ ret.val = PyRound(Cardinality(PellPop \cap GradPop(args.years_to_grad)),
                             Cardinality(PellPop \cap FedPop), 3)

\* a graduate of the cohort who is no Pell recipient, and a Pell recipient who graduated
C14_Witness ==
    /\ op = "grs_cohort_pell_grad"
    /\ GradPop(args.years_to_grad) \ PellPop # {}
    /\ PellPop \cap GradPop(args.years_to_grad) # {}
    /\ Returned(ret)
    /\ ret.val = 1000

(***************************************************************************)
(* C15: with grs_cohort_pell > 0, second_year_retention_rate_pell returns  *)
(* |P n R| divided by grs_cohort_pell, rounded to 3 decimals, R being the  *)
(* identifiers of the FED cohort rows whose 'Academic Period 2nd Fall' is  *)
(* the term one year on.                                                   *)
(***************************************************************************)
C15_RetentionRatePell ==
    (op = "second_year_retention_rate_pell" /\ PellPop \cap FedPop # {}) =>
        /\ Returned(ret)
        /\ ret.val = PyRound(Cardinality(PellPop \cap RetainedPop),
                             Cardinality(PellPop \cap FedPop), 3)

\* a Pell recipient of the cohort who was not retained
C15_Witness ==
    /\ op = "second_year_retention_rate_pell"
    /\ (PellPop \cap FedPop) \ RetainedPop # {}
    /\ RetainedPop # {}
    /\ Returned(ret)
    /\ ret.val = 0

(***************************************************************************)
(* C16: total_headcount is the number of distinct identifiers of the kept  *)
(* enrollment rows, and fall_enrollment(pell=False, transfer=False) plus   *)
(* fall_enrollment(pell=False, transfer=True) is total_headcount minus the *)
(* number of incoming-transfer identifiers that are not enrolled, hence    *)
(* total_headcount exactly when every incoming-transfer identifier is      *)
(* enrolled.                                                               *)
(***************************************************************************)
C16_EnrollmentPartition ==
    /\ op = "total_headcount" => Returned(ret) /\ ret.val = Cardinality(EnrolledPop)
    /\ op = "enrollment_counts" =>
          /\ Returned(ret)
          /\ ret.val.headcount = Cardinality(EnrolledPop)
          /\ ret.val.headcount_nottr + ret.val.headcount_transfer
                = ret.val.headcount - Cardinality(TransferPop \ EnrolledPop)
          /\ (ret.val.headcount_nottr + ret.val.headcount_transfer = ret.val.headcount)
                <=> (TransferPop \subseteq EnrolledPop)

\* an incoming transfer who is enrolled and one who is not
C16_Witness ==
    /\ op = "enrollment_counts"
    /\ TransferPop \cap EnrolledPop # {}
    /\ TransferPop \ EnrolledPop # {}
    /\ Returned(ret)
    /\ ret.val.headcount_nottr + ret.val.headcount_transfer = ret.val.headcount - 1

(***************************************************************************)
(* C17, as stated: each of the four fall_enrollment results is between 0   *)
(* and total_headcount, and for each pell flag the transfer=False and      *)
(* transfer=True results count disjoint groups of enrolled students.       *)
(***************************************************************************)
C17_AsStated ==
    /\ op = "fall_enrollment" =>
          Returned(ret) /\ ret.val \in 0..Cardinality(EnrolledPop)
    /\ op = "enrollment_counts" =>
          /\ Returned(ret)
          /\ \A r \in {ret.val.headcount_nottr, ret.val.pell_nottr,
                       ret.val.headcount_transfer, ret.val.transfer_pell} :
                r \in 0..ret.val.headcount
          /\ ret.val.headcount_nottr + ret.val.headcount_transfer <= ret.val.headcount
          /\ ret.val.pell_nottr + ret.val.transfer_pell <= ret.val.headcount

(***************************************************************************)
(* C17, as amended: the (pell, transfer) = (True, False), (False, True)    *)
(* and (True, True) results are between 0 and total_headcount, and for     *)
(* each pell flag the two results add up to at most total_headcount; the   *)
(* (False, False) result is |E| - |T|, at most total_headcount, and at     *)
(* least 0 exactly when there are no more incoming-transfer identifiers    *)
(* than enrolled identifiers.                                              *)
(***************************************************************************)
C17_Subpopulations ==
    /\ (op = "fall_enrollment" /\ (args.pell \/ args.transfer)) =>
          Returned(ret) /\ ret.val \in 0..Cardinality(EnrolledPop)
    /\ (op = "fall_enrollment" /\ ~args.pell /\ ~args.transfer) =>
          /\ Returned(ret)
          /\ ret.val <= Cardinality(EnrolledPop)
          /\ ret.val >= 0 <=> Cardinality(TransferPop) <= Cardinality(EnrolledPop)
    /\ op = "enrollment_counts" =>
          /\ Returned(ret)
          /\ \A r \in {ret.val.pell_nottr, ret.val.headcount_transfer,
                       ret.val.transfer_pell} :
                r \in 0..ret.val.headcount
          /\ ret.val.headcount_nottr <= ret.val.headcount
          /\ ret.val.headcount_nottr >= 0
                <=> Cardinality(TransferPop) <= Cardinality(EnrolledPop)
          /\ ret.val.headcount_nottr + ret.val.headcount_transfer <= ret.val.headcount
          /\ ret.val.pell_nottr + ret.val.transfer_pell <= ret.val.headcount

\* more incoming transfers than enrolled students: the non-transfer headcount is negative
C17_Witness ==
    /\ op = "enrollment_counts"
    /\ EnrolledPop # {}
    /\ Cardinality(TransferPop) > Cardinality(EnrolledPop)
    /\ Returned(ret)
    /\ ret.val.headcount_nottr < 0
    /\ ret.val.headcount_transfer = 1

(***************************************************************************)
(* The enrollment-filter specification: filter_enrollment_table, once and  *)
(* twice, and its three users on enrollment tables whose rows pass or fail *)
(* each of the four conditions, with present and with missing cells.       *)
(***************************************************************************)
Term2024 == <<"2", "0", "2", "4", "8", "0">>

FilterEnrDomain ==
    {EnrRow(i, Term2025, <<"FT">>, <<"UG">>, d) : i \in RateIds, d \in {<<"BA">>, NaN}}
        \cup {EnrRow(<<"1">>, Term2025, <<"FT">>, <<"UG">>, <<"Non Degree">>),
              EnrRow(<<"1">>, Term2025, <<"PT">>, <<"UG">>, <<"BA">>),
              EnrRow(<<"1">>, Term2025, NaN, <<"UG">>, <<"BA">>),
              EnrRow(<<"1">>, Term2025, <<"FT">>, <<"GR">>, <<"BA">>),
              EnrRow(<<"1">>, Term2025, <<"FT">>, NaN, <<"BA">>),
              EnrRow(<<"1">>, Term2024, <<"FT">>, <<"UG">>, <<"BA">>),
              EnrRow(<<"1">>, NaN, <<"FT">>, <<"UG">>, <<"BA">>),
              [EnrRow(<<"1">>, Term2025, <<"FT">>, <<"UG">>, <<"BA">>)
                  EXCEPT !["Person Uid"] = <<"v">>]}

InitFilter ==
    /\ InitTables({PellRow(<<"1">>, Aid2526)}, {RetRow(<<"1">>, Transfer2025, NaN, NaN)},
                  FilterEnrDomain)
    /\ id_column = "ID"
    /\ term = Term2025
    /\ heap = <<>>
    /\ required_cols = 0
    /\ files = <<>>
    /\ pc = "loaded"
    /\ op = "none"
    /\ args = NoArgs
    /\ ret = NoCall

\* filter_enrollment_table(df_enrl, term)
FilterEnrollmentTable ==
    /\ pc = "loaded"
    /\ op' = "filter_enrollment_table"
    /\ args' = [term |-> term]
    /\ ret' = filter_enrollment_table(df_enrl, term)
    /\ pc' = "filtered"
    /\ UNCHANGED <<tables, id_column, term, heap, required_cols, files>>

\* filter_enrollment_table(filter_enrollment_table(df_enrl, term), term)
FilterAgain ==
    /\ pc = "filtered"
    /\ Returned(ret)
    /\ op' = "filter_enrollment_table"
    /\ args' = [term |-> term]
    /\ ret' = filter_enrollment_table(ret.val, term)
    /\ pc' = "refiltered"
    /\ UNCHANGED <<tables, id_column, term, heap, required_cols, files>>

NextFilter ==
    \/ FilterEnrollmentTable
    \/ FilterAgain
    \/ TotalHeadcount
    \/ FallEnrollment
    \/ GenerateTableForCarol

SpecFilter == InitFilter /\ [][NextFilter]_vars

\* a row of full-time, degree-seeking undergraduate enrollment in the term
RowWanted(r) ==
    /\ r["Academic Period"] = term
    /\ r["Time Status"] = <<"FT">>
    /\ r["Student Level"] = <<"UG">>
    /\ r["Degree"] # <<"Non Degree">>

WantedRows == SelectSeq(df_enrl.rows, RowWanted)

WantedIds == {WantedRows[i]["ID"] : i \in 1..Len(WantedRows)} \ {NaN}

(***************************************************************************)
(* C18: filter_enrollment_table returns exactly the rows with Academic     *)
(* Period = term, Time Status = 'FT', Student Level = 'UG' and Degree not  *)
(* 'Non Degree' (a missing Degree is kept, a missing Time Status or        *)
(* Student Level is dropped), in their original order; filtering twice     *)
(* gives the same rows; total_headcount, fall_enrollment and the           *)
(* enrollment extract are computed on this row set.                        *)
(***************************************************************************)
C18_FilterEnrollmentTable ==
    /\ op = "filter_enrollment_table" =>
          /\ Returned(ret)
          /\ ret.val.cols = df_enrl.cols
          /\ ret.val.rows = WantedRows
    /\ op = "total_headcount" => Returned(ret) /\ ret.val = Cardinality(WantedIds)
    /\ op = "fall_enrollment" =>
          /\ Returned(ret)
          /\ ret.val =
                IF ~args.pell /\ ~args.transfer
                    THEN Cardinality(WantedIds) - Cardinality(TransferPop)
                ELSE IF args.pell /\ ~args.transfer
                    THEN Cardinality((PellPop \cap WantedIds) \ TransferPop)
                ELSE IF ~args.pell /\ args.transfer
                    THEN Cardinality(WantedIds \cap TransferPop)
                ELSE Cardinality(PellPop \cap WantedIds \cap TransferPop)
    /\ op = "generate_table_for_carol" =>
          /\ ret = Return(None)
          /\ Len(files) = 1
          /\ Len(files[1].table.rows) = Len(WantedRows)
          /\ \A i \in 1..Len(WantedRows) :
                /\ files[1].table.rows[i]["ID"] = WantedRows[i]["ID"]
                /\ files[1].table.rows[i]["Person Uid"] = WantedRows[i]["Person Uid"]

\* filtered twice: a kept row with a missing Degree between two dropped rows
C18_Witness ==
    /\ pc = "refiltered"
    /\ Len(df_enrl.rows) = 3
    /\ df_enrl.rows[1]["Time Status"] = NaN
    /\ df_enrl.rows[2]["Degree"] = NaN
    /\ df_enrl.rows[3]["Degree"] = <<"Non Degree">>
    /\ Returned(ret)
    /\ ret.val.rows = <<df_enrl.rows[2]>>

(***************************************************************************)
(* helper.py: calc_percent.  An argument is a Python value with its type;  *)
(* a float argument has a whole-number value here.  A returned float is    *)
(* given as its number of decimal places and its count of units of         *)
(* 10^-places.                                                             *)
(***************************************************************************)
PyVal(type, val) == [type |-> type, val |-> val]

\* isinstance(x, (int, float))
IsNumeric(x) == x.type \in {"int", "float"}

\* round(abs(round_to), 0): an int stays an int, a float stays a float
RoundAbs(x) == PyVal(x.type, IF x.val < 0 THEN 0 - x.val ELSE x.val)

calc_percent(num, denom, round_to) ==
    IF ~IsNumeric(num) \/ ~IsNumeric(denom) \/ ~IsNumeric(round_to)
    THEN Raise("TypeError", <<"'num', 'denom' and 'round_to' must be numeric (int or float).">>)
    ELSE IF denom.val = 0 THEN Raise("ZeroDivisionError", None)
    ELSE IF RoundAbs(round_to).type = "float"
    THEN Raise("TypeError", <<"'float' object cannot be interpreted as an integer">>)
    ELSE Return([places |-> RoundAbs(round_to).val,
                 units |-> PyRound(num.val, denom.val, RoundAbs(round_to).val)])

(***************************************************************************)
(* The percentage specification: calc_percent on numeric and non-numeric   *)
(* arguments.                                                              *)
(***************************************************************************)
NumArgs == {PyVal("int", 0), PyVal("int", 1), PyVal("int", 3), PyVal("float", 1),
            PyVal("str", 1), PyVal("NoneType", 0)}

DenomArgs == {PyVal("int", 0), PyVal("int", 1), PyVal("int", 4), PyVal("int", 8),
              PyVal("float", 4), PyVal("str", 4)}

RoundToArgs == {PyVal("int", 2), PyVal("int", 0), PyVal("int", 1), PyVal("int", 3),
                PyVal("int", -1), PyVal("float", 2), PyVal("str", 2), PyVal("NoneType", 0)}

InitPercent ==
    /\ InitIdle
    /\ term = Term2025
    /\ pc = "start"
    /\ op = "none"
    /\ args = NoArgs
    /\ ret = NoCall

\* calc_percent(num, denom, round_to)
CalcPercent ==
    /\ pc = "start"
    /\ \E num \in NumArgs, denom \in DenomArgs, round_to \in RoundToArgs :
        /\ args' = [num |-> num, denom |-> denom, round_to |-> round_to]
        /\ ret' = calc_percent(num, denom, round_to)
    /\ op' = "calc_percent"
    /\ pc' = "called"
    /\ UNCHANGED <<tables, id_column, term, heap, required_cols, files>>

NextPercent == CalcPercent

SpecPercent == InitPercent /\ [][NextPercent]_vars

\* 10^n for n in 0..3
Pow10(n) == IF n = 0 THEN 1 ELSE IF n = 1 THEN 10 ELSE IF n = 2 THEN 100 ELSE 1000

\* num / den to the nearest whole number, a tie going to the even one (num >= 0, den > 0)
Nearest(num, den) ==
    CHOOSE q \in 0..(num + 1) :
        \/ 2 * num - 2 * q * den < den /\ 2 * q * den - 2 * num < den
        \/ 2 * num - 2 * q * den = den /\ q % 2 = 0
        \/ 2 * q * den - 2 * num = den /\ q % 2 = 0

\* num / den rounded to the given number of decimal places (negative: to tens, hundreds)
RoundedTo(num, den, places) ==
    [places |-> places,
     units |-> IF places >= 0 THEN Nearest(num * Pow10(places), den)
               ELSE Nearest(num, den * Pow10(0 - places))]

\* a rounded value as a count of thousandths
Thousandths(v) ==
    IF v.places >= 0 THEN v.units * Pow10(3 - v.places)
    ELSE v.units * 1000 * Pow10(0 - v.places)

(***************************************************************************)
(* C19, as stated: calc_percent returns num / denom rounded to round_to    *)
(* decimal places for every numeric num, non-zero numeric denom and        *)
(* numeric round_to, and fails with a type error exactly when at least one *)
(* of the three arguments is not numeric.                                  *)
(***************************************************************************)
C19_AsStated ==
    op = "calc_percent" =>
        LET numeric == IsNumeric(args.num) /\ IsNumeric(args.denom) /\ IsNumeric(args.round_to)
        IN  /\ Raised(ret, "TypeError") <=> ~numeric
            /\ (numeric /\ args.denom.val # 0) =>
                  /\ Returned(ret)
                  /\ Thousandths(ret.val)
                        = Thousandths(RoundedTo(args.num.val, args.denom.val,
                                                args.round_to.val))

(***************************************************************************)
(* The frame specification: the caller holds three table objects and calls *)
(* the core operations on them, any number of times, discarding what they  *)
(* return.  df_pell, df_ret and df_enrl are the contents of the caller's   *)
(* objects.  remove_leading_zeros is the one operation with a statement    *)
(* that writes to a table (df['ID'] = ...); it is run on the objects.      *)
(***************************************************************************)
\* a mutation of df_copy: no copy is made
df_same(h, ref) == [heap |-> h, ref |-> ref]

\* df.copy(): a new object with the same contents
df_copy(h, ref) == [heap |-> Append(h, h[ref]), ref |-> Len(h) + 1]

\* remove_leading_zeros on the table object h[ref]: the outcome (the reference of the
\* returned object) and the objects it leaves
remove_leading_zeros_object(h, ref, column) ==
    IF column \notin h[ref].cols
    THEN [out |-> Raise("ValueError", column), heap |-> h]
    ELSE LET c == df_copy(h, ref)
         IN  IF "ID" \notin c.heap[c.ref].cols
             THEN [out |-> Raise("KeyError", "ID"), heap |-> c.heap]
             ELSE [out |-> Return(c.ref),
                   heap |-> [c.heap EXCEPT
                                ![c.ref] = remove_leading_zeros(@, column).val]]

\* the number of extract files written
MaxFiles == 1

FramePellDomain == {PellRow(<<"0", "1">>, Aid2526)}

FrameRetDomain == {RetRow(<<"0", "1">>, Fed2025, <<"4">>, Term2026),
                   RetRow(<<"1">>, Transfer2025, NaN, NaN)}

FrameEnrDomain == {EnrRow(<<"0", "1">>, Term2025, <<"FT">>, <<"UG">>, <<"BA">>),
                   EnrRow(<<"1">>, Term2025, <<"PT">>, <<"UG">>, <<"BA">>)}

InitFrame ==
    /\ InitTables(FramePellDomain, FrameRetDomain, FrameEnrDomain)
    /\ id_column \in {"ID", "SID"}
    /\ term = Term2025
    /\ heap = <<>>
    /\ required_cols = 0
    /\ files = <<>>
    /\ pc = "loaded"
    /\ op = "none"
    /\ args = NoArgs
    /\ ret = NoCall

TableIndex(name) == IF name = "pell" THEN 1 ELSE IF name = "ret" THEN 2 ELSE 3

\* remove_leading_zeros(<table>, column=id_column), the result not assigned to the table
FrameRemoveLeadingZeros ==
    /\ pc = "loaded"
    /\ \E name \in {"pell", "ret", "enrl"} :
        LET r == remove_leading_zeros_object(<<df_pell, df_ret, df_enrl>>,
                                             TableIndex(name), id_column)
        IN  /\ args' = [table |-> name, column |-> id_column]
            /\ ret' = IF Returned(r.out) THEN Return(r.heap[r.out.val]) ELSE r.out
            /\ df_pell' = r.heap[1]
            /\ df_ret' = r.heap[2]
            /\ df_enrl' = r.heap[3]
    /\ op' = "remove_leading_zeros"
    /\ UNCHANGED <<id_column, term, heap, required_cols, files, pc>>

\* what a call of an operation that has no statement writing to a table leaves alone
ReadOnlyFrame == UNCHANGED <<tables, id_column, term, heap, required_cols, files, pc>>

FrameFilterEnrollmentTable ==
    /\ pc = "loaded"
    /\ op' = "filter_enrollment_table"
    /\ args' = [term |-> term]
    /\ ret' = filter_enrollment_table(df_enrl, term)
    /\ ReadOnlyFrame

FrameGrsCohort ==
    /\ pc = "loaded"
    /\ op' = "grs_cohort"
    /\ args' = [term |-> term]
    /\ ret' = grs_cohort(df_ret, id_column, term, "Cohort Name")
    /\ ReadOnlyFrame

FrameGrsCohortGrad ==
    /\ pc = "loaded"
    /\ op' = "grs_cohort_grad"
    /\ args' = [term |-> term, years_to_grad |-> 4]
    /\ ret' = grs_cohort_grad(df_ret, id_column, term, 4, "Cohort Name")
    /\ ReadOnlyFrame

FrameGrsCohortPell ==
    /\ pc = "loaded"
    /\ op' = "grs_cohort_pell"
    /\ args' = [term |-> term]
    /\ ret' = grs_cohort_pell(df_pell, df_ret, id_column, term, "AID_YEAR", "Cohort Name")
    /\ ReadOnlyFrame

FrameGrsCohortPellGrad ==
    /\ pc = "loaded"
    /\ op' = "grs_cohort_pell_grad"
    /\ args' = [term |-> term, years_to_grad |-> 4]
    /\ ret' = grs_cohort_pell_grad(df_pell, df_ret, id_column, term, 4, "AID_YEAR", "Cohort Name")
    /\ ReadOnlyFrame

FrameSecondYearRetentionRate ==
    /\ pc = "loaded"
    /\ op' = "second_year_retention_rate"
    /\ args' = [term |-> term]
    /\ ret' = second_year_retention_rate(df_ret, id_column, term, "Cohort Name")
    /\ ReadOnlyFrame

FrameSecondYearRetentionRatePell ==
    /\ pc = "loaded"
    /\ op' = "second_year_retention_rate_pell"
    /\ args' = [term |-> term]
    /\ ret' = second_year_retention_rate_pell(df_pell, df_ret, id_column, term, "AID_YEAR", "Cohort Name")
    /\ ReadOnlyFrame

FrameTotalHeadcount ==
    /\ pc = "loaded"
    /\ op' = "total_headcount"
    /\ args' = [term |-> term]
    /\ ret' = total_headcount(df_enrl, term, id_column)
    /\ ReadOnlyFrame

FrameFallEnrollment ==
    /\ pc = "loaded"
    /\ \E pell \in BOOLEAN, transfer \in BOOLEAN :
        /\ args' = [term |-> term, pell |-> pell, transfer |-> transfer]
        /\ ret' = fall_enrollment(df_pell, df_ret, df_enrl, id_column, term, pell, transfer)
    /\ op' = "fall_enrollment"
    /\ ReadOnlyFrame

\* an extract generator writes its file and returns None, or raises; the tables are read
FrameWriteExtract(r) ==
    /\ ret' = IF Returned(r) THEN Return(None) ELSE r
    /\ files' = IF Returned(r) THEN Append(files, r.val) ELSE files
    /\ UNCHANGED <<tables, id_column, term, heap, required_cols, pc>>

FrameGenerateTableForCarol ==
    /\ pc = "loaded"
    /\ Len(files) < MaxFiles
    /\ op' = "generate_table_for_carol"
    /\ args' = [term |-> term]
    /\ FrameWriteExtract(generate_table_for_carol(df_enrl, term, <<"results">>))

FrameGenerateIpedsTableForCarol ==
    /\ pc = "loaded"
    /\ Len(files) < MaxFiles
    /\ op' = "generate_ipeds_table_for_carol"
    /\ args' = [acad_year |-> AcadYear2526]
    /\ FrameWriteExtract(generate_ipeds_table_for_carol(df_ret, AcadYear2526, <<"results">>))

NextFrame ==
    \/ FrameRemoveLeadingZeros
    \/ FrameFilterEnrollmentTable
    \/ FrameGrsCohort
    \/ FrameGrsCohortGrad
    \/ FrameGrsCohortPell
    \/ FrameGrsCohortPellGrad
    \/ FrameSecondYearRetentionRate
    \/ FrameSecondYearRetentionRatePell
    \/ FrameTotalHeadcount
    \/ FrameFallEnrollment
    \/ FrameGenerateTableForCarol
    \/ FrameGenerateIpedsTableForCarol

SpecFrame == InitFrame /\ [][NextFrame]_vars

(***************************************************************************)
(* C20: no core operation mutates a table passed to it: over any sequence  *)
(* of calls of the metrics, filter_enrollment_table, remove_leading_zeros  *)
(* and the extract generators, returning or failing, the caller's tables   *)
(* keep their rows, columns and cell values.                               *)
(***************************************************************************)
C20_NoMutation == [][tables' = tables]_vars

\* remove_leading_zeros returned a table that differs from the one the caller passed,
\* after an earlier extract
C20_Witness ==
    /\ op = "remove_leading_zeros"
    /\ Returned(ret)
    /\ ret.val # TableNamed(args.table)
    /\ TableNamed(args.table).rows[1]["ID"] = <<"0", "1">>
    /\ ret.val.rows[1]["ID"] = <<"1">>
    /\ Len(files) = 1

(***************************************************************************)
(* C21: the enrollment extract written by generate_table_for_carol has     *)
(* exactly one row per row of filter_enrollment_table(dfe, term), in       *)
(* order, duplicates of an identifier kept, each with that row's ID and    *)
(* Person Uid, the term as Academic Period and the four-digit academic     *)
(* year pair as Aid Year; no kept row gives an empty extract.              *)
(***************************************************************************)
C21_EnrollmentExtract ==
    op = "generate_table_for_carol" =>
        LET kept == filter_enrollment_table(df_enrl, term).val.rows
        IN  /\ ret = Return(None)
            /\ Len(files) = 1
            /\ files[1].table.cols = {"ID", "Person Uid", "Academic Period", "Aid Year"}
            /\ files[1].table.rows =
                  [i \in 1..Len(kept) |->
                      [ID |-> kept[i]["ID"]] @@
                      ("Person Uid" :> kept[i]["Person Uid"]) @@
                      ("Academic Period" :> term) @@
                      ("Aid Year" :> SubSeq(term, 1, 4) \o <<"-">> \o StrNat(YearOf(term) + 1))]
            /\ (kept = <<>>) => files[1].table.rows = <<>>

\* two kept rows of one identifier with different Person Uids, and a dropped row
C21_Witness ==
    /\ op = "generate_table_for_carol"
    /\ Len(df_enrl.rows) = 3
    /\ Len(files) = 1
    /\ Len(files[1].table.rows) = 2
    /\ files[1].table.rows[1]["ID"] = files[1].table.rows[2]["ID"]
    /\ files[1].table.rows[1]["Person Uid"] # files[1].table.rows[2]["Person Uid"]
    /\ files[1].table.rows[1]["Aid Year"] = <<"2", "0", "2", "5", "-", "2", "0", "2", "6">>

(***************************************************************************)
(* The run specification: run.py from the loading of the three tables to   *)
(* the writing of the results file, one step after the other; a step that  *)
(* raises ends the run.  ret carries the values computed so far.           *)
(***************************************************************************)
Term2021 == <<"2", "0", "2", "1", "8", "0">>

Term2019 == <<"2", "0", "1", "9", "8", "0">>

RunPell ==
    [cols |-> PellCols,
     rows |-> <<PellRow(<<"1">>, Aid2526), PellRow(<<"1">>, Aid2425),
                PellRow(<<"1">>, <<"2", "1", "2", "2">>),
                PellRow(<<"1">>, <<"1", "9", "2", "0">>)>>]

RunRet ==
    [cols |-> RetCols,
     rows |-> <<RetRow(<<"1">>, Fed2025, NaN, NaN),
                RetRow(<<"1">>, construct_cohort(Term2024, FED), NaN, Term2025),
                RetRow(<<"1">>, construct_cohort(Term2021, FED), <<"4">>, NaN),
                RetRow(<<"1">>, construct_cohort(Term2019, FED), <<"6">>, NaN),
                RetRow(<<"2">>, Transfer2025, NaN, NaN)>>]

RunEnrl ==
    [cols |-> EnrCols,
     rows |-> <<EnrRow(<<"1">>, Term2025, <<"FT">>, <<"UG">>, <<"BA">>),
                EnrRow(<<"2">>, Term2025, <<"FT">>, <<"UG">>, <<"BA">>)>>]

\* the files the run may find: complete ones, and ones that make a later step fail
RunPellFiles ==
    {RunPell, [RunPell EXCEPT !.rows = SubSeq(@, 1, 3)],
     [RunPell EXCEPT !.rows = [i \in 1..4 |-> [@[i] EXCEPT !["ID"] = <<"0", "1">>]]]}

RunRetFiles == {RunRet, [RunRet EXCEPT !.rows = SubSeq(@, 1, 4)],
                Without(RunRet, {"Cohort Fiscal Year"})}

RunEnrlFiles == {RunEnrl, Without(RunEnrl, {"Degree"})}

\* infer_and_read_file: the table of the file, or an unsupported file type
ReadOutcomes(tables_found) ==
    {Return(t) : t \in tables_found} \cup {Raise("ValueError", <<"Unsupported file type">>)}

InitRun ==
    /\ df_pell = EmptyTable
    /\ df_ret = EmptyTable
    /\ df_enrl = EmptyTable
    /\ id_column \in {"ID", "SID"}
    /\ term = Term2025
    /\ heap = <<>>
    /\ required_cols = 0
    /\ files = <<>>
    /\ pc = "init"
    /\ op = "none"
    /\ args = NoArgs
    /\ ret = NoCall

\* df_pell = infer_and_read_file(PELL_PATH)
LoadPell ==
    /\ pc = "init"
    /\ \E r \in ReadOutcomes(RunPellFiles) :
        /\ ret' = r
        /\ df_pell' = IF Returned(r) THEN r.val ELSE df_pell
        /\ pc' = IF Returned(r) THEN "read_pell" ELSE "failed"
    /\ op' = "infer_and_read_file"
    /\ args' = [table |-> "pell"]
    /\ UNCHANGED <<df_ret, df_enrl, id_column, term, heap, required_cols, files>>

\* df_ret = infer_and_read_file(RETENTION_PATH)
LoadRet ==
    /\ pc = "read_pell"
    /\ \E r \in ReadOutcomes(RunRetFiles) :
        /\ ret' = r
        /\ df_ret' = IF Returned(r) THEN r.val ELSE df_ret
        /\ pc' = IF Returned(r) THEN "read_ret" ELSE "failed"
    /\ op' = "infer_and_read_file"
    /\ args' = [table |-> "ret"]
    /\ UNCHANGED <<df_pell, df_enrl, id_column, term, heap, required_cols, files>>

\* df_enrl = infer_and_read_file(ENROLLMENT_PATH)
LoadEnrl ==
    /\ pc = "read_ret"
    /\ \E r \in ReadOutcomes(RunEnrlFiles) :
        /\ ret' = r
        /\ df_enrl' = IF Returned(r) THEN r.val ELSE df_enrl
        /\ pc' = IF Returned(r) THEN "loaded" ELSE "failed"
    /\ op' = "infer_and_read_file"
    /\ args' = [table |-> "enrl"]
    /\ UNCHANGED <<df_pell, df_ret, id_column, term, heap, required_cols, files>>

\* a mutation of StepBefore: the extract files are written before the percentages
StepBefore_extracts_first(step) ==
    CASE step = "cohort_metrics" -> "standardized"
      [] step = "enrollment_counts" -> "cohort_metrics"
      [] step = "extract_1" -> "metrics"
      [] step = "extract_2" -> "extract_1"
      [] step = "extract_3" -> "extract_2"
      [] step = "percentages" -> "extract_3"
      [] step = "assemble_results" -> "percentages"
      [] step = "output_results" -> "assembled"

\* the order of run.py's statements after the identifier columns are normalised: the
\* position the script must have reached for the step to run
StepBefore(step) ==
    CASE step = "cohort_metrics" -> "standardized"
      [] step = "enrollment_counts" -> "cohort_metrics"
      [] step = "percentages" -> "metrics"
      [] step = "assemble_results" -> "percentages"
      [] step = "extract_1" -> "assembled"
      [] step = "extract_2" -> "extract_1"
      [] step = "extract_3" -> "extract_2"
      [] step = "output_results" -> "extract_3"

\* pd.NA, the placeholder of the first-generation metrics
NA == <<"NA">>

\* " ".join(["Fall", t[:4]])
CohortLabel(t) == <<"Fall", " ">> \o Prefix(t, 4)

\* pd.DataFrame({'Cohort': label, 'Metric': metrics.keys(), 'Value': metrics.values()})
MetricFrame(label, names, values) ==
    [i \in 1..Len(names) |-> [Cohort |-> label, Metric |-> names[i], Value |-> values[i]]]

\* the names bound by the script so far
Bound == heap[1]

\* a step of the script that binds names: its outcome r ends the run or extends the names
BindStep(step, r) ==
    /\ ret' = r
    /\ heap' = IF Returned(r) THEN <<r.val>> ELSE heap
    /\ pc' = IF Returned(r) THEN step ELSE "failed"
    /\ args' = NoArgs
    /\ UNCHANGED <<tables, id_column, term, required_cols, files>>

\* a step of the script that writes a file
FileStep(step, r) ==
    /\ ret' = IF Returned(r) THEN Return(None) ELSE r
    /\ files' = IF Returned(r) THEN Append(files, r.val) ELSE files
    /\ pc' = IF Returned(r) THEN step ELSE "failed"
    /\ args' = NoArgs
    /\ UNCHANGED <<tables, id_column, term, heap, required_cols>>

\* run.py's cohort block: the eight cohort metrics, with the literal column 'ID'
RunCohortMetrics ==
    /\ pc = StepBefore("cohort_metrics")
    /\ op' = "cohort_metrics"
    /\ LET retention_cohort_term == adjust_term(term, -1).val
           grad_term_4 == adjust_term(term, -4).val
           grad_term_6 == adjust_term(term, -6).val
           pell_first == grs_cohort_pell(df_pell, df_ret, "ID", term, "AID_YEAR", "Cohort Name")
           cohort_first == grs_cohort(df_ret, "ID", term, "Cohort Name")
           pell_first_grad_4 ==
               grs_cohort_pell_grad(df_pell, df_ret, "ID", grad_term_4, 4, "AID_YEAR", "Cohort Name")
           pell_first_grad_6 ==
               grs_cohort_pell_grad(df_pell, df_ret, "ID", grad_term_6, 6, "AID_YEAR", "Cohort Name")
           cohort_first_grad_4 == grs_cohort_grad(df_ret, "ID", grad_term_4, 4, "Cohort Name")
           cohort_first_grad_6 == grs_cohort_grad(df_ret, "ID", grad_term_6, 6, "Cohort Name")
           cohort_first_retention ==
               second_year_retention_rate(df_ret, "ID", retention_cohort_term, "Cohort Name")
           pell_first_retention ==
               second_year_retention_rate_pell(df_pell, df_ret, "ID", retention_cohort_term,
                                               "AID_YEAR", "Cohort Name")
           calls == <<pell_first, cohort_first, pell_first_grad_4, pell_first_grad_6,
                      cohort_first_grad_4, cohort_first_grad_6, cohort_first_retention,
                      pell_first_retention>>
       IN  BindStep("cohort_metrics",
                    IF ~Returned(FirstRaise(calls)) THEN FirstRaise(calls)
                    ELSE Return([retention_cohort_term |-> retention_cohort_term,
                                 grad_term_4 |-> grad_term_4,
                                 grad_term_6 |-> grad_term_6,
                                 pell_first |-> pell_first.val,
                                 cohort_first |-> cohort_first.val,
                                 pell_first_grad_4 |-> pell_first_grad_4.val,
                                 pell_first_grad_6 |-> pell_first_grad_6.val,
                                 cohort_first_grad_4 |-> cohort_first_grad_4.val,
                                 cohort_first_grad_6 |-> cohort_first_grad_6.val,
                                 cohort_first_retention |-> cohort_first_retention.val,
                                 pell_first_retention |-> pell_first_retention.val]))

\* run.py's enrollment block: total_headcount and the four fall_enrollment calls
RunEnrollmentCounts ==
    /\ pc = StepBefore("enrollment_counts")
    /\ op' = "enrollment_counts"
    /\ LET headcount == total_headcount(df_enrl, term, id_column)
           headcount_nottr ==
               fall_enrollment(df_pell, df_ret, df_enrl, id_column, term, FALSE, FALSE)
           pell_nottr ==
               fall_enrollment(df_pell, df_ret, df_enrl, id_column, term, TRUE, FALSE)
           headcount_transfer ==
               fall_enrollment(df_pell, df_ret, df_enrl, id_column, term, FALSE, TRUE)
           transfer_pell ==
               fall_enrollment(df_pell, df_ret, df_enrl, id_column, term, TRUE, TRUE)
           calls == <<headcount, headcount_nottr, pell_nottr, headcount_transfer,
                      transfer_pell>>
       IN  BindStep("metrics",
                    IF ~Returned(FirstRaise(calls)) THEN FirstRaise(calls)
                    ELSE Return(Bound @@ [headcount |-> headcount.val,
                                          headcount_nottr |-> headcount_nottr.val,
                                          pell_nottr |-> pell_nottr.val,
                                          headcount_transfer |-> headcount_transfer.val,
                                          transfer_pell |-> transfer_pell.val]))

\* run.py's percentage block: the three calc_percent calls
RunPercentages ==
    /\ pc = StepBefore("percentages")
    /\ op' = "calc_percent"
    /\ LET pell_first_pct ==
               calc_percent(PyVal("int", Bound.pell_first), PyVal("int", Bound.cohort_first),
                            PyVal("int", 2))
           pell_nottr_pct ==
               calc_percent(PyVal("int", Bound.pell_nottr), PyVal("int", Bound.headcount_nottr),
                            PyVal("int", 2))
           pell_transfer_pct ==
               calc_percent(PyVal("int", Bound.transfer_pell),
                            PyVal("int", Bound.headcount_transfer), PyVal("int", 2))
           calls == <<pell_first_pct, pell_nottr_pct, pell_transfer_pct>>
       IN  BindStep("percentages",
                    IF ~Returned(FirstRaise(calls)) THEN FirstRaise(calls)
                    ELSE Return(Bound @@ [pell_first_pct |-> pell_first_pct.val,
                                          pell_nottr_pct |-> pell_nottr_pct.val,
                                          pell_transfer_pct |-> pell_transfer_pct.val]))

\* run.py's metric dictionaries and the concatenation of the four frames into df_results
AssembleResults ==
    /\ pc = StepBefore("assemble_results")
    /\ op' = "assemble_results"
    /\ LET df_curr_term ==
               MetricFrame(CohortLabel(term),
                           <<"grs_cohort", "grs_cohort_pell", "fall_enrollment",
                             "fall_enrollment_pelll", "fall_transfer_enrollment",
                             "fall_transfer_enroll_pell", "total_enrollment", "firstgen_enroll",
                             "firstgen_enroll_pell", "continuing_gen_enroll",
                             "unknown_firstgen_enroll", "firstgen_definition",
                             "complete_firstgen">>,
                           <<Bound.cohort_first, Bound.pell_first, Bound.headcount_nottr,
                             Bound.pell_nottr, Bound.headcount_transfer, Bound.transfer_pell,
                             Bound.headcount, NA, NA, NA, NA, NA, NA>>)
           df_retention_term ==
               MetricFrame(CohortLabel(Bound.retention_cohort_term),
                           <<"retention_rate", "retention_rate_pell">>,
                           <<Bound.cohort_first_retention, Bound.pell_first_retention>>)
           df_grad4_term ==
               MetricFrame(CohortLabel(Bound.grad_term_4),
                           <<"grs_cohort_grad_4yr", "grs_cohort_pell_grad_4yr">>,
                           <<Bound.cohort_first_grad_4, Bound.pell_first_grad_4>>)
           df_grad6_term ==
               MetricFrame(CohortLabel(Bound.grad_term_6),
                           <<"grs_cohort_grad_6yr", "grs_cohort_pell_grad_6yr">>,
                           <<Bound.cohort_first_grad_6, Bound.pell_first_grad_6>>)
           df_results ==
               [cols |-> {"Cohort", "Metric", "Value"},
                rows |-> df_curr_term \o df_retention_term \o df_grad4_term \o df_grad6_term]
       IN  BindStep("assembled", Return(Bound @@ [df_results |-> df_results]))

\* generate_table_for_carol(dfe=df_enrl, term=term, outpath=RESULTS_PATH)
RunEnrollmentExtract ==
    /\ pc = StepBefore("extract_1")
    /\ op' = "generate_table_for_carol"
    /\ FileStep("extract_1", generate_table_for_carol(df_enrl, term, <<"results">>))

\* generate_ipeds_table_for_carol(dfr=df_ret, acad_year=ipeds_acad_year, outpath=RESULTS_PATH)
RunIpedsExtract ==
    /\ pc = StepBefore("extract_2")
    /\ op' = "generate_ipeds_table_for_carol"
    /\ FileStep("extract_2", generate_ipeds_table_for_carol(df_ret, AcadYear2526, <<"results">>))

\* the same for the academic year before ipeds_acad_year
RunPriorIpedsExtract ==
    /\ pc = StepBefore("extract_3")
    /\ op' = "generate_ipeds_table_for_carol"
    /\ LET acad_year == PyStr(PyInt(Prefix(AcadYear2526, 4)) - 1) \o <<"-">> \o
                        PyStr(PyInt(Suffix(AcadYear2526, 4)) - 1)
       IN  FileStep("extract_3", generate_ipeds_table_for_carol(df_ret, acad_year, <<"results">>))

\* output_results: df written to RESULTS_FILE, an .xlsx workbook opened in append mode,
\* which must exist already
output_results(df, workbook_exists) ==
    IF ~workbook_exists THEN Raise("FileNotFoundError", <<"results_file">>)
    ELSE Return([dir |-> <<"results">>, name |-> <<"results_file">>, table |-> df])

\* output_results(df=df_results, file_path=RESULTS_FILE, ...)
OutputResults ==
    /\ pc = StepBefore("output_results")
    /\ op' = "output_results"
    /\ \E workbook_exists \in BOOLEAN :
        FileStep("done", output_results(Bound.df_results, workbook_exists))

NextRun ==
    \/ LoadPell
    \/ LoadRet
    \/ LoadEnrl
    \/ StandardizePell
    \/ StandardizeRet
    \/ StandardizeEnrl
    \/ RunCohortMetrics
    \/ RunEnrollmentCounts
    \/ RunPercentages
    \/ AssembleResults
    \/ RunEnrollmentExtract
    \/ RunIpedsExtract
    \/ RunPriorIpedsExtract
    \/ OutputResults

SpecRun == InitRun /\ [][NextRun]_vars

(***************************************************************************)
(* C22: a run takes its steps in one order: the three loads, the three     *)
(* normalisations of the identifier column, the metrics and percentages,   *)
(* the assembly of the results table, the extract files, the results file; *)
(* a failed step ends the run, and a run that fails in a load, a           *)
(* normalisation, a metric or a percentage has written no file.            *)
(***************************************************************************)
RunOrder ==
    <<"init", "read_pell", "read_ret", "loaded", "std_pell", "std_ret", "standardized",
      "cohort_metrics", "metrics", "percentages", "assembled", "extract_1", "extract_2",
      "extract_3", "done">>

Position(p) == CHOOSE i \in 1..Len(RunOrder) : RunOrder[i] = p

ComputingOps == {"infer_and_read_file", "remove_leading_zeros", "cohort_metrics",
                 "enrollment_counts", "calc_percent"}

ExtractFiles == {f \in 1..Len(files) : files[f].name # <<"results_file">>}

C22_RunOrder ==
    /\ [][/\ pc # "failed"
          /\ pc' # "failed" => Position(pc') = Position(pc) + 1
          /\ files' # files =>
                /\ pc' \in {"extract_1", "extract_2", "extract_3", "done"}
                /\ Len(files') = Len(files) + 1
                /\ SubSeq(files', 1, Len(files)) = files
                /\ (files'[Len(files')].name = <<"results_file">>) <=> (pc' = "done")]_vars
    /\ [](pc \in {"extract_1", "extract_2", "extract_3", "done"} \/ files = <<>>
            \/ (pc = "failed" /\ op \notin ComputingOps))
    /\ [](pc = "failed" /\ op \in ComputingOps => files = <<>>)
    /\ [](pc = "done" => Len(files) = 4 /\ ExtractFiles = 1..3)

C22_Witness ==
    /\ pc = "failed"
    /\ op = "calc_percent"
    /\ Raised(ret, "ZeroDivisionError")
    /\ Bound.pell_first = 1
    /\ Bound.headcount_transfer = 0
    /\ files = <<>>

\* a run that reaches its end has written the three extracts and then the results table
C22_WitnessDone ==
    /\ pc = "done"
    /\ Len(files) = 4
    /\ files[4].table = Bound.df_results
    /\ Len(files[4].table.rows) = 19

(***************************************************************************)
(* The Pell share specification: the size of the incoming cohort, its Pell *)
(* sub-cohort and the share of the one in the other, on the rate tables.   *)
(***************************************************************************)
\* the terms the Pell share is computed for
ShareTerms == {Term2025, Term2024}

\* run.py's Pell share of the incoming cohort: pell_first, cohort_first and
\* pell_first_pct = calc_percent(pell_first, cohort_first)
PellShare ==
    /\ CallReady
    /\ op' = "pell_share"
    /\ \E t \in ShareTerms :
        /\ args' = [term |-> t]
        /\ LET pell_first == grs_cohort_pell(df_pell, df_ret, "ID", t, "AID_YEAR", "Cohort Name")
               cohort_first == grs_cohort(df_ret, "ID", t, "Cohort Name")
               counts == <<pell_first, cohort_first>>
               pell_first_pct == calc_percent(PyVal("int", pell_first.val),
                                              PyVal("int", cohort_first.val), PyVal("int", 2))
           IN  ret' = IF ~Returned(FirstRaise(counts)) THEN FirstRaise(counts)
                      ELSE IF ~Returned(pell_first_pct) THEN pell_first_pct
                      ELSE Return([pell_first |-> pell_first.val,
                                   cohort_first |-> cohort_first.val,
                                   pell_first_pct |-> pell_first_pct.val])
    /\ CallFrame

NextShare ==
    \/ GrsCohort
    \/ GrsCohortPell
    \/ PellShare

SpecShare == InitRates /\ [][NextShare]_vars

(***************************************************************************)
(* C23: the Pell sub-cohort of a term is never larger than the FED cohort  *)
(* of the term: whenever grs_cohort_pell and grs_cohort both return,       *)
(* grs_cohort_pell <= grs_cohort, and the Pell share the run computes from *)
(* them, calc_percent(pell_first, cohort_first), is at most 1 (100         *)
(* hundredths).                                                            *)
(***************************************************************************)
C23_PellShareAtMostOne ==
    op = "pell_share" =>
        LET pell == grs_cohort_pell(df_pell, df_ret, "ID", args.term, "AID_YEAR", "Cohort Name")
            cohort == grs_cohort(df_ret, "ID", args.term, "Cohort Name")
        IN  /\ Returned(pell) /\ Returned(cohort) => pell.val <= cohort.val
            /\ Returned(ret) =>
                /\ ret.val.pell_first = pell.val
                /\ ret.val.cohort_first = cohort.val
                /\ ret.val.pell_first <= ret.val.cohort_first
                /\ ret.val.pell_first_pct.places = 2
                /\ ret.val.pell_first_pct.units >= 0
                /\ ret.val.pell_first_pct.units <= 100

\* one Pell recipient in a cohort of two rows of the same student: the share is 0.5
C23_Witness ==
    /\ op = "pell_share"
    /\ args.term = Term2025
    /\ Returned(ret)
    /\ Len(df_ret.rows) = 2
    /\ df_ret.rows[1]["ID"] = df_ret.rows[2]["ID"]
    /\ ret.val.pell_first = 1
    /\ ret.val.cohort_first = 2
    /\ ret.val.pell_first_pct.units = 50

\* every student of the cohort is a Pell recipient: the share is 1
C23_WitnessAll ==
    /\ op = "pell_share"
    /\ Returned(ret)
    /\ ret.val.pell_first = 1
    /\ ret.val.cohort_first = 1
    /\ ret.val.pell_first_pct.units = 100

====
